---- MODULE Spec2Model ----
(***************************************************************************)
(* Order intake and lifecycle service (elik56a/sales-system).              *)
(*                                                                         *)
(* The store is PostgreSQL at its default isolation level (READ            *)
(* COMMITTED): a statement reads committed rows only, the writes of a      *)
(* db.transaction callback become visible together at COMMIT and are       *)
(* dropped together when the callback throws, an UPDATE takes the row's    *)
(* lock until its transaction ends, and a statement issued on `db`         *)
(* outside db.transaction is its own transaction.                          *)
(*                                                                         *)
(* Each call of OrderService.createOrder / updateOrderStatus is a slot of  *)
(* `call`; a slot moves from one await to the next in one step.  Each      *)
(* publishEvent call of the outbox publisher is an element of `tasks`,     *)
(* tagged with the run of processOutboxEvents that started it.             *)
(***************************************************************************)
EXTENDS Integers, Sequences, FiniteSets, Bags, TLC

VARIABLES
    orders,     \* committed rows of table orders
    outbox,     \* committed rows of table outbox_events
    processed,  \* committed rows of table processed_events
    call,       \* the createOrder / updateOrderStatus calls, by slot
    applied,    \* history: the status updates that committed, in no order
    now,        \* the clock (ms)
    tasks,      \* the publishEvent calls in flight, by processOutboxEvents run
    messages,   \* MockQueue.messages, as a bag of {topic, payload}
    hist,       \* history: what happened to each outbox row's publishing
    breaker,    \* inventoryCircuitBreaker's fields
    execs,      \* the CircuitBreaker.execute calls, by slot
    timers,     \* DeliveryService's pending setTimeout callbacks, as a bag
    subscribers,\* MockQueue.subscribers: topic -> callbacks in subscription order
    received,   \* history: the events each callback was called with, in order
    worker,     \* outboxPublisher's isRunning and intervalId, the interval timers set
    consumer,   \* statusConsumer's isRunning
    requestQueue,\* requestQueue's queue and processing counter
    responses   \* the HTTP requests that reached the queue middleware, by id

publisherVars == <<now, tasks, messages, hist>>

breakerVars == <<breaker, execs>>

queueVars == <<timers, subscribers, received>>

httpVars == <<requestQueue, responses>>

vars == <<orders, outbox, processed, call, applied, now, tasks, messages, hist,
          breaker, execs, timers, subscribers, received, worker, consumer,
          requestQueue, responses>>

----------------------------------------------------------------------------
(* Bounds of the model                                                     *)

MaxCalls == 2
MaxOrders == 2
MaxRows == 1
MaxPolls == 2
MaxAttempts == 6
MaxFaults == 1
MaxExecs == 2
MaxSubscriptions == 3
MaxPublishes == 2
MaxTime == 35000
MaxBatch == 2
MaxStarts == 2
MaxBacklog == 2
MaxRequests == 3

Calls == 1..MaxCalls

(* Orders an updateOrderStatus call may address; the store holds some or   *)
(* all of them.                                                            *)
OrderIds == 1..MaxOrders

(* The outbox rows the publisher finds, the runs of processOutboxEvents    *)
(* that may be in progress together (one per worker, or one per timer tick *)
(* of a worker whose earlier batch has not settled).                       *)
RowIds == 1..(IF MaxRows > MaxBatch THEN MaxRows ELSE MaxBatch)
Polls == 1..MaxPolls

----------------------------------------------------------------------------
(* Values                                                                  *)

PENDING_SHIPMENT == "Pending Shipment"
SHIPPED == "Shipped"
DELIVERED == "Delivered"
OrderStatus == {PENDING_SHIPMENT, SHIPPED, DELIVERED}

ORDER_CREATED == "order.created"
ORDER_SHIPPED == "order.shipped"
ORDER_DELIVERED == "order.delivered"
DLQ_EVENT == "dlq.event"

ORDER_EVENTS == "order-events"
DELIVERY_EVENTS == "delivery-events"
DEAD_LETTER_QUEUE == "dead-letter-queue"

INSUFFICIENT_INVENTORY == "INSUFFICIENT_INVENTORY"
INVENTORY_SERVICE_UNAVAILABLE == "INVENTORY_SERVICE_UNAVAILABLE"
ORDER_NOT_FOUND == "ORDER_NOT_FOUND"
INVALID_STATUS_TRANSITION == "INVALID_STATUS_TRANSITION"
DUPLICATE_EVENT == "DUPLICATE_EVENT"

(* An argument or field that is `undefined` in JavaScript (NULL in a row). *)
Undefined == "<undefined>"
NoQty == -1

(* A timestamp column that is NULL.                                        *)
NullTime == -1

(* `if (idempotencyKey)`: undefined and the empty string are falsy.        *)
Truthy(k) == k \notin {Undefined, ""}

(* The idempotency keys a caller passes: none, the empty header value, a   *)
(* key.                                                                    *)
Keys == {Undefined, "", "k1"}

(* The eventIds of the status events handed to updateOrderStatus.          *)
EventIds == {"e1", "e2"}

(* The validated requests (items of {productId, quantity, price}).         *)
Requests ==
    << << [productId |-> "product-1", quantity |-> 2, price |-> 10] >>,
       << [productId |-> "product-1", quantity |-> 2, price |-> 10],
          [productId |-> "product-2", quantity |-> 1, price |-> 15] >> >>

(* What the inventory collaborator may answer for `items`: one result per  *)
(* item, in the order of the request; an available item comes with a       *)
(* quantity, an unavailable one with a smaller quantity or none            *)
(* (availableQuantity is optional).                                        *)
Responses(items) ==
    { rs \in [1..Len(items) ->
                [productId : {"product-1", "product-2"}, available : BOOLEAN,
                 availableQuantity : {NoQty, 0, 1, 2}]] :
        \A i \in 1..Len(items) :
            /\ rs[i].productId = items[i].productId
            /\ IF rs[i].available
               THEN rs[i].availableQuantity = items[i].quantity
               ELSE rs[i].availableQuantity < items[i].quantity }

----------------------------------------------------------------------------
(* Results                                                                 *)

NoResult == [success |-> FALSE, code |-> "pending", orderId |-> 0, details |-> << >>]
Success(id) == [success |-> TRUE, code |-> "", orderId |-> id, details |-> << >>]
Failure(code, details) ==
    [success |-> FALSE, code |-> code, orderId |-> 0, details |-> details]

IdleCall ==
    [op |-> "none", pc |-> "idle", req |-> 0, key |-> Undefined, order |-> 0,
     newStatus |-> "", eventId |-> "", seen |-> "", txOrder |-> 0,
     calledInventory |-> FALSE, inventoryResults |-> << >>,
     openedTx |-> FALSE, committed |-> FALSE, fault |-> FALSE,
     priorOrder |-> 0, priorMarker |-> FALSE, updatedAt |-> 0, result |-> NoResult]

----------------------------------------------------------------------------
(* Pure helpers of the order service                                       *)

RECURSIVE SumItems(_, _)
SumItems(items, n) ==
    IF n = 0 THEN 0
    ELSE SumItems(items, n - 1) + items[n].price * items[n].quantity

calculateTotal(items) == SumItems(items, Len(items))

(* Variant: every unavailable result is paired with the first item.        *)
RECURSIVE CollectUnavailableFirstItem(_, _, _)
CollectUnavailableFirstItem(items, results, n) ==
    IF n = 0 THEN << >>
    ELSE LET before == CollectUnavailableFirstItem(items, results, n - 1)
             r == results[n]
         IN  IF ~r.available
             THEN Append(before,
                         [productId |-> items[1].productId,
                          requested |-> items[1].quantity,
                          available |-> IF r.availableQuantity = NoQty
                                        THEN 0 ELSE r.availableQuantity])
             ELSE before

findUnavailableItemsFirstItem(items, results) ==
    CollectUnavailableFirstItem(items, results, Len(results))

RECURSIVE CollectUnavailable(_, _, _)
CollectUnavailable(items, results, n) ==
    IF n = 0 THEN << >>
    ELSE LET before == CollectUnavailable(items, results, n - 1)
             r == results[n]
         IN  IF ~r.available
             THEN Append(before,
                         [productId |-> items[n].productId,
                          requested |-> items[n].quantity,
                          available |-> IF r.availableQuantity = NoQty
                                        THEN 0 ELSE r.availableQuantity])
             ELSE before

findUnavailableItems(items, results) ==
    CollectUnavailable(items, results, Len(results))

(* Variant: any change of status is accepted.                              *)
isValidStatusTransitionAnyChange(currentStatus, newStatus) ==
    currentStatus # newStatus

isValidStatusTransition(currentStatus, newStatus) ==
    \/ currentStatus = PENDING_SHIPMENT /\ newStatus = SHIPPED
    \/ currentStatus = SHIPPED /\ newStatus = DELIVERED

(* `order.${newStatus.toLowerCase().replace(" ", "_")}`                     *)
derivedEventType(newStatus) ==
    CASE newStatus = PENDING_SHIPMENT -> "order.pending_shipment"
      [] newStatus = SHIPPED -> ORDER_SHIPPED
      [] newStatus = DELIVERED -> ORDER_DELIVERED

----------------------------------------------------------------------------
(* Store helpers                                                           *)

SetMax(S) == IF S = {} THEN 0 ELSE CHOOSE x \in S : \A y \in S : y <= x

(* ids are fresh UUIDs: the next id no insert has used (txOrder keeps the  *)
(* id a call's insert was given, also after a rollback).                   *)
FreshOrderId ==
    1 + SetMax({o.id : o \in orders} \cup {call[c].txOrder : c \in Calls})

findOrderByIdempotencyKey(k) == {o \in orders : o.key = k}

findOrderById(id) == {o \in orders : o.id = id}

(* Variant: the lookup finds nothing.                                      *)
findProcessedEventNone(e) == {}

findProcessedEvent(e) == {m \in processed : m.eventId = e}

(* The order row a create call inserts (RETURNING gives it back).          *)
OrderRow(c) ==
    [id |-> call[c].txOrder,
     req |-> call[c].req,
     totalAmount |-> calculateTotal(Requests[call[c].req]),
     status |-> PENDING_SHIPMENT,
     key |-> call[c].key,
     createdAt |-> now,
     updatedAt |-> now]

(* The payload eventId of an order's order.created event (a fresh UUID).   *)
CreatedEventId(id) == "created-" \o ToString(id)

OutboxRow(order) ==
    [id |-> order.id,
     eventType |-> ORDER_CREATED,
     aggregateId |-> order.id,
     eventId |-> CreatedEventId(order.id),
     published |-> FALSE,
     retryCount |-> 0,
     nextRetryAt |-> NullTime,
     createdAt |-> now,
     publishedAt |-> NullTime]

(* Variant: the insert is issued on `db`, outside the transaction.         *)
OrdersAfterDbInsert(c, row) == orders \cup {row}

(* The committed orders table right after `tx.insert(orders)` ran inside   *)
(* the transaction: the row is pending, not visible.                       *)
OrdersAfterTxInsert(c, row) == orders

(* Another transaction's uncommitted insert of the same non-null           *)
(* idempotency key makes this insert wait (unique index).                  *)
PendingKeyInsert(c) ==
    \E d \in Calls \ {c} :
        /\ call[d].pc = "insertOutbox"
        /\ call[d].key = call[c].key
        /\ call[c].key # Undefined

(* The call holding the row lock of order o: its UPDATE ran and its        *)
(* transaction has not ended.                                              *)
LockHolders(o) ==
    {d \in Calls : call[d].op = "update" /\ call[d].pc = "mark" /\ call[d].order = o}

Finish(c, res) == [call[c] EXCEPT !.pc = "done", !.result = res]

CanStart(c) ==
    /\ call[c].pc = "idle"
    /\ c > 1 => call[c - 1].pc # "idle"

----------------------------------------------------------------------------
(* OrderService.createOrder                                                *)

StartCreate(c) ==
    /\ CanStart(c)
    /\ \E r \in 1..Len(Requests), k \in Keys :
         call' = [call EXCEPT ![c] =
                    [IdleCall EXCEPT
                       !.op = "create", !.req = r, !.key = k,
                       !.priorOrder =
                           IF k = Undefined \/ findOrderByIdempotencyKey(k) = {}
                           THEN 0
                           ELSE (CHOOSE o \in findOrderByIdempotencyKey(k) : TRUE).id,
                       !.pc = IF Truthy(k) THEN "idem" ELSE "inventory"]]
    /\ UNCHANGED <<worker, consumer, httpVars, orders, outbox, processed, applied, publisherVars, breakerVars, queueVars>>

(* 1. Check idempotency                                                    *)
HandleIdempotency(c) ==
    /\ call[c].pc = "idem"
    /\ LET existing == findOrderByIdempotencyKey(call[c].key)
       IN  call' = [call EXCEPT ![c] =
                      IF existing # {}
                      THEN Finish(c, Success((CHOOSE o \in existing : TRUE).id))
                      ELSE [call[c] EXCEPT !.pc = "inventory"]]
    /\ UNCHANGED <<worker, consumer, httpVars, orders, outbox, processed, applied, publisherVars, breakerVars, queueVars>>

(* 2. Check inventory for all items                                        *)

(* Variant: a failed inventory check is ignored and the order is created.  *)
InventoryThrowsIgnored(c) ==
    call' = [call EXCEPT ![c] =
               [call[c] EXCEPT !.calledInventory = TRUE, !.pc = "insertOrder"]]

(* checkBatchAvailability throws: the catch block of                       *)
(* checkAllItemsAvailability returns INVENTORY_SERVICE_UNAVAILABLE.        *)
InventoryThrows(c) ==
    call' = [call EXCEPT ![c] =
               [call[c] EXCEPT !.calledInventory = TRUE, !.pc = "done",
                               !.result = Failure(INVENTORY_SERVICE_UNAVAILABLE, << >>)]]

(* checkBatchAvailability returns results: collect the unavailable items.  *)
InventoryResponds(c, results) ==
    LET items == Requests[call[c].req]
        unavailableItems == findUnavailableItems(items, results)
        got == [call[c] EXCEPT !.calledInventory = TRUE, !.inventoryResults = results]
    IN  call' = [call EXCEPT ![c] =
                   IF Len(unavailableItems) > 0
                   THEN [got EXCEPT !.pc = "done",
                                    !.result = Failure(INSUFFICIENT_INVENTORY,
                                                       unavailableItems)]
                   ELSE [got EXCEPT !.pc = "insertOrder"]]

(* The inventory service as the order service sees it: it throws or        *)
(* answers.                                                                *)
ValidateInventory(c) ==
    /\ call[c].pc = "inventory"
    /\ \/ InventoryThrows(c)
       \/ \E results \in Responses(Requests[call[c].req]) : InventoryResponds(c, results)
    /\ UNCHANGED <<worker, consumer, httpVars, orders, outbox, processed, applied, publisherVars, breakerVars, queueVars>>

(* 4. createOrderWithOutbox: db.transaction, tx.insert(orders)             *)
InsertOrder(c) ==
    /\ call[c].pc = "insertOrder"
    /\ ~PendingKeyInsert(c)
    /\ LET me == [call[c] EXCEPT !.openedTx = TRUE]
       IN  IF call[c].key # Undefined /\ findOrderByIdempotencyKey(call[c].key) # {}
           THEN \* unique violation: the callback throws, ROLLBACK
                /\ call' = [call EXCEPT ![c] =
                              [me EXCEPT !.pc = "done",
                                         !.result = Failure(INVENTORY_SERVICE_UNAVAILABLE, << >>)]]
                /\ UNCHANGED orders
           ELSE /\ call' = [call EXCEPT ![c] =
                              [me EXCEPT !.pc = "insertOutbox", !.txOrder = FreshOrderId]]
                /\ orders' = OrdersAfterTxInsert(c, [OrderRow(c) EXCEPT !.id = FreshOrderId])
    /\ UNCHANGED <<worker, consumer, httpVars, outbox, processed, applied, publisherVars, breakerVars, queueVars>>

(* tx.insert(outboxEvents), return order, COMMIT                           *)
InsertOutboxAndCommit(c) ==
    /\ call[c].pc = "insertOutbox"
    /\ orders' = orders \cup {OrderRow(c)}
    /\ outbox' = outbox \cup {OutboxRow(OrderRow(c))}
    /\ call' = [call EXCEPT ![c] =
                  [Finish(c, Success(call[c].txOrder)) EXCEPT !.committed = TRUE]]
    /\ UNCHANGED <<worker, consumer, httpVars, processed, applied, publisherVars, breakerVars, queueVars>>

----------------------------------------------------------------------------
(* OrderService.updateOrderStatus                                          *)

StartUpdate(c) ==
    /\ CanStart(c)
    /\ \E o \in OrderIds, s \in OrderStatus, e \in EventIds :
         call' = [call EXCEPT ![c] =
                    [IdleCall EXCEPT
                       !.op = "update", !.order = o, !.newStatus = s, !.eventId = e,
                       !.priorMarker = (findProcessedEvent(e) # {}),
                       !.pc = "checkDup"]]
    /\ UNCHANGED <<worker, consumer, httpVars, orders, outbox, processed, applied, publisherVars, breakerVars, queueVars>>

(* Variant: the order is looked up before the processed event.            *)
CheckDuplicateEventAfterOrder(c) ==
    /\ call[c].pc = "checkDup"
    /\ call' = [call EXCEPT ![c] =
                  IF findOrderById(call[c].order) = {}
                  THEN Finish(c, Failure(ORDER_NOT_FOUND, << >>))
                  ELSE IF findProcessedEvent(call[c].eventId) # {}
                  THEN Finish(c, Failure(DUPLICATE_EVENT, << >>))
                  ELSE [call[c] EXCEPT !.openedTx = TRUE, !.pc = "findOrder"]]
    /\ UNCHANGED <<worker, consumer, httpVars, orders, outbox, processed, applied, publisherVars, breakerVars, queueVars>>

(* Check if event already processed (idempotency)                          *)
CheckDuplicateEvent(c) ==
    /\ call[c].pc = "checkDup"
    /\ call' = [call EXCEPT ![c] =
                  IF findProcessedEvent(call[c].eventId) # {}
                  THEN Finish(c, Failure(DUPLICATE_EVENT, << >>))
                  ELSE [call[c] EXCEPT !.openedTx = TRUE, !.pc = "findOrder"]]
    /\ UNCHANGED <<worker, consumer, httpVars, orders, outbox, processed, applied, publisherVars, breakerVars, queueVars>>

(* Get current order, validate status transition (forward-only)            *)
FindAndValidate(c) ==
    /\ call[c].pc = "findOrder"
    /\ LET found == findOrderById(call[c].order)
       IN  call' = [call EXCEPT ![c] =
                      IF found = {}
                      THEN Finish(c, Failure(ORDER_NOT_FOUND, << >>))
                      ELSE LET currentOrder == CHOOSE o \in found : TRUE
                           IN  IF ~isValidStatusTransition(currentOrder.status,
                                                           call[c].newStatus)
                               THEN [Finish(c, Failure(INVALID_STATUS_TRANSITION, << >>))
                                       EXCEPT !.seen = currentOrder.status]
                               ELSE [call[c] EXCEPT !.seen = currentOrder.status,
                                                    !.updatedAt = now,
                                                    !.pc = "update"]]
    /\ UNCHANGED <<worker, consumer, httpVars, orders, outbox, processed, applied, publisherVars, breakerVars, queueVars>>

(* tx.update(orders).set({status}).where(eq(orders.id, orderId)): waits    *)
(* for the row lock, then writes whatever the committed status is now.     *)
UpdateStatus(c) ==
    /\ call[c].pc = "update"
    /\ LockHolders(call[c].order) = {}
    /\ call' = [call EXCEPT ![c].pc = "mark"]
    /\ UNCHANGED <<worker, consumer, httpVars, orders, outbox, processed, applied, publisherVars, breakerVars, queueVars>>

(* Variant: the UPDATE has no where clause.                                *)
OrdersAfterUpdateAll(id, newStatus, updatedAt) ==
    {[o EXCEPT !.status = newStatus, !.updatedAt = updatedAt] : o \in orders}

(* The rows of orders after the committed UPDATE                           *)
(* set({status, updatedAt}).where(eq(orders.id, orderId)).                 *)
OrdersAfterUpdate(id, newStatus, updatedAt) ==
    {IF o.id = id THEN [o EXCEPT !.status = newStatus, !.updatedAt = updatedAt]
                  ELSE o : o \in orders}

(* tx.insert(processedEvents), COMMIT                                      *)
MarkProcessedAndCommit(c) ==
    /\ call[c].pc = "mark"
    /\ IF findProcessedEvent(call[c].eventId) # {}
       THEN \* unique violation on event_id: ROLLBACK
            /\ call' = [call EXCEPT ![c] =
                          Finish(c, Failure(INVENTORY_SERVICE_UNAVAILABLE, << >>))]
            /\ UNCHANGED <<worker, consumer, httpVars, orders, processed, applied>>
       ELSE /\ orders' = OrdersAfterUpdate(call[c].order, call[c].newStatus,
                                           call[c].updatedAt)
            /\ processed' = processed \cup
                              {[eventId |-> call[c].eventId,
                                eventType |-> derivedEventType(call[c].newStatus)]}
            /\ applied' = applied \cup
                            {[order |-> call[c].order, eventId |-> call[c].eventId,
                              from |-> (CHOOSE o \in findOrderById(call[c].order) : TRUE).status,
                              to |-> call[c].newStatus]}
            /\ call' = [call EXCEPT ![c] =
                          [Finish(c, Success(call[c].order)) EXCEPT !.committed = TRUE]]
    /\ UNCHANGED <<worker, consumer, httpVars, outbox, publisherVars, breakerVars, queueVars>>

----------------------------------------------------------------------------
(* A store statement (or the COMMIT) of the call throws: the transaction   *)
(* rolls back and the catch block turns the error into a result.           *)

DbSteps == {"idem", "insertOrder", "insertOutbox", "checkDup", "findOrder", "update", "mark"}

(* Variant: the order inserted by the failed transaction stays.            *)
OrdersAfterFailedCommit(c) ==
    IF call[c].txOrder # 0 THEN orders \cup {OrderRow(c)} ELSE orders

(* The committed orders after the rollback of c's transaction.             *)
OrdersAfterRollback(c) == orders

StoreFailure(c) ==
    /\ call[c].pc \in DbSteps
    /\ call' = [call EXCEPT ![c] =
                  [Finish(c, Failure(INVENTORY_SERVICE_UNAVAILABLE, << >>))
                     EXCEPT !.openedTx = (call[c].pc # "idem"), !.fault = TRUE]]
    /\ orders' = OrdersAfterRollback(c)
    /\ UNCHANGED <<worker, consumer, httpVars, outbox, processed, applied, publisherVars, breakerVars, queueVars>>

----------------------------------------------------------------------------
(* OutboxPublisher                                                         *)

batchSize == 50
maxRetries == 5
baseDelayMs == 100
maxDelayMs == 1600

Min(a, b) == IF a <= b THEN a ELSE b

(* Variant: the exponent is newRetryCount, not newRetryCount - 1.          *)
retryDelayMsDoubled(newRetryCount) ==
    Min(baseDelayMs * 2 ^ newRetryCount, maxDelayMs)

(* Math.min(baseDelayMs * Math.pow(2, newRetryCount - 1), maxDelayMs)      *)
retryDelayMs(newRetryCount) ==
    Min(baseDelayMs * 2 ^ (newRetryCount - 1), maxDelayMs)

(* Variant: every known event type goes to order-events.                   *)
getTopicForEventTypeOrderEvents(eventType) ==
    CASE eventType \in {ORDER_CREATED, ORDER_SHIPPED, ORDER_DELIVERED} -> ORDER_EVENTS
      [] OTHER -> "unknown-events"

getTopicForEventType(eventType) ==
    CASE eventType = ORDER_CREATED -> ORDER_EVENTS
      [] eventType \in {ORDER_SHIPPED, ORDER_DELIVERED} -> DELIVERY_EVENTS
      [] OTHER -> "unknown-events"

(* Per outbox row: bus publishes attempted, the bus failures in a row      *)
(* since the last success, store writes that threw, whether the DLQ        *)
(* publish was rejected, whether the bus was tried after published=true.   *)
NoHistory ==
    [attempts |-> 0, fails |-> 0, faults |-> 0, dlqFailed |-> FALSE, late |-> FALSE]

RECURSIVE SumAttempts(_)
SumAttempts(n) == IF n = 0 THEN 0 ELSE SumAttempts(n - 1) + hist[n].attempts

(* The bus publishes attempted so far, over all rows.                      *)
TotalAttempts == SumAttempts(Cardinality(RowIds))

RECURSIVE SumFaults(_)
SumFaults(n) == IF n = 0 THEN 0 ELSE SumFaults(n - 1) + hist[n].faults

TotalFaults == SumFaults(Cardinality(RowIds))

(* The OutboxPublisher as constructed: not running, no interval.  A       *)
(* missing intervalId is 0; `intervals` are the setInterval timers that    *)
(* have not been cleared, `started` counts the setInterval calls,          *)
(* `queryErrors` the lease queries that threw (history).                   *)
NewWorker ==
    [isRunning |-> FALSE, intervalId |-> 0, intervals |-> {}, started |-> 0,
     queryErrors |-> 0]

(* Variant: start has no isRunning guard.                                  *)
StartedAgain(w) ==
    [w EXCEPT !.isRunning = TRUE, !.intervalId = w.started + 1,
              !.intervals = @ \cup {w.started + 1}, !.started = @ + 1]

(* OutboxPublisher.start: the worker afterwards.                           *)
Started(w) ==
    IF w.isRunning THEN w
    ELSE [w EXCEPT !.isRunning = TRUE, !.intervalId = w.started + 1,
                   !.intervals = @ \cup {w.started + 1}, !.started = @ + 1]

(* OutboxPublisher.stop: the worker afterwards.                            *)
Stopped(w) ==
    IF ~w.isRunning THEN w
    ELSE [w EXCEPT !.isRunning = FALSE,
                   !.intervals = IF w.intervalId # 0 THEN @ \ {w.intervalId} ELSE @,
                   !.intervalId = 0]

(* The worker after startBackgroundWorkers (app.ts:45).                    *)
WorkerRunning == Started(NewWorker)

PublisherIdle ==
    /\ worker = WorkerRunning
    /\ now = 0
    /\ tasks = {}
    /\ messages = EmptyBag
    /\ hist = [r \in RowIds |-> NoHistory]

RowById(id) == CHOOSE r \in outbox : r.id = id

(* The rows of outbox_events after UPDATE ... WHERE id = `id`, which       *)
(* leaves the row as `row`.                                                *)
OutboxAfterUpdate(id, row) ==
    {IF r.id = id THEN row ELSE r : r \in outbox}

(* Row locks on outbox_events held by a run's SELECT ... FOR UPDATE: the   *)
(* select is issued on `db`, not inside db.transaction, so it is its own   *)
(* transaction and its locks end with the statement.                       *)
LeaseLocks(p) == {}

LockedRows == UNION {LeaseLocks(p) : p \in Polls}

(* Variant: rows are selected only while retry_count < maxRetries - 1.     *)
EligibleBelowLastRetry ==
    {r \in outbox :
        /\ r.published = FALSE
        /\ r.retryCount < maxRetries - 1
        /\ (r.nextRetryAt = NullTime \/ r.nextRetryAt <= now)
        /\ r.id \notin LockedRows}

(* Variant: next_retry_at is not part of the WHERE clause.                 *)
EligibleAnySchedule ==
    {r \in outbox :
        /\ r.published = FALSE
        /\ r.retryCount <= maxRetries
        /\ r.id \notin LockedRows}

(* WHERE published = false AND retry_count <= maxRetries AND               *)
(* (next_retry_at IS NULL OR next_retry_at <= now), SKIP LOCKED            *)
Eligible ==
    {r \in outbox :
        /\ r.published = FALSE
        /\ r.retryCount <= maxRetries
        /\ (r.nextRetryAt = NullTime \/ r.nextRetryAt <= now)
        /\ r.id \notin LockedRows}

(* ORDER BY created_at LIMIT batchSize: the first batchSize eligible rows, *)
(* rows of equal created_at in any order.                                  *)
LeaseBatches ==
    IF Cardinality(Eligible) <= batchSize THEN {Eligible}
    ELSE LET Older(c) == {r \in Eligible : r.createdAt < c}
             UpTo(c) == {r \in Eligible : r.createdAt <= c}
             last == CHOOSE c \in {r.createdAt : r \in Eligible} :
                        /\ Cardinality(Older(c)) < batchSize
                        /\ Cardinality(UpTo(c)) >= batchSize
             ties == UpTo(last) \ Older(last)
         IN  {Older(last) \cup t :
                t \in {u \in SUBSET ties :
                          Cardinality(u) = batchSize - Cardinality(Older(last))}}

(* The columns the select returns (OutboxEventRow).                        *)
LeasedEvent(r) ==
    [id |-> r.id, eventType |-> r.eventType, aggregateId |-> r.aggregateId,
     eventId |-> r.eventId, retryCount |-> r.retryCount, createdAt |-> r.createdAt]

PollRunning(p) == \E t \in tasks : t.poll = p

(* processOutboxEvents: lease a batch, start publishEvent for each row.    *)
ProcessOutboxEvents(p) ==
    /\ ~PollRunning(p)
    /\ \A q \in Polls : q < p => PollRunning(q)
    /\ \E b \in LeaseBatches :
         /\ b # {}
         /\ tasks' = tasks \cup
                       {[poll |-> p, pc |-> "publish", sent |-> FALSE,
                         event |-> LeasedEvent(r)] : r \in b}
    /\ UNCHANGED <<worker, consumer, httpVars, orders, outbox, processed, call, applied, breakerVars, queueVars, now, messages, hist>>

(* Variant: a failure of one publishEvent call abandons the other calls   *)
(* of the runs in progress.                                                *)
MovedAlone(t, pc) == {[t EXCEPT !.pc = pc]}

(* The publishEvent calls in flight after call t went on to step pc; the   *)
(* other calls are where they were (Promise.allSettled).                   *)
Moved(t, pc) == (tasks \ {t}) \cup {[t EXCEPT !.pc = pc]}

QueueMessage(topic, payload) == [topic |-> topic, payload |-> payload]

EventPayload(e) ==
    [eventId |-> e.eventId, eventType |-> e.eventType, orderId |-> e.aggregateId]

(* MockQueue (app.ts:86-144) and its subscribers.  publish pushes the      *)
(* message and calls every callback of the topic, in subscription order,   *)
(* inside a try / catch, all in one turn.                                  *)

Topics == {ORDER_EVENTS, DELIVERY_EVENTS, DEAD_LETTER_QUEUE}

HANDLE_ORDER_CREATED == "DeliveryService.handleOrderCreated"
HANDLE_DELIVERY_EVENT == "StatusConsumer.handleDeliveryEvent"

(* The StatusConsumer as constructed, and after start().                   *)
NewConsumer == [isRunning |-> FALSE]

ConsumerRunning == [isRunning |-> TRUE]

(* startBackgroundWorkers: statusConsumer.start(), deliveryService.start() *)
AppSubscribers ==
    [t \in Topics |->
        CASE t = ORDER_EVENTS -> <<HANDLE_ORDER_CREATED>>
          [] t = DELIVERY_EVENTS -> <<HANDLE_DELIVERY_EVENT>>
          [] OTHER -> << >>]

QueueIdle ==
    /\ timers = EmptyBag
    /\ subscribers = AppSubscribers
    /\ received = << >>
    /\ consumer = ConsumerRunning

shippingDelay == 10000
deliveryDelay == shippingDelay + 10000

Timer(orderId, eventType, delay) ==
    [orderId |-> orderId, eventType |-> eventType, due |-> now + delay]

(* DeliveryService.handleOrderCreated: the timers pending after the call.  *)
handleOrderCreated(event) ==
    IF event.eventType # ORDER_CREATED
    THEN timers
    ELSE timers (+) SetToBag({Timer(event.orderId, ORDER_SHIPPED, shippingDelay),
                              Timer(event.orderId, ORDER_DELIVERED, deliveryDelay)})

Subscribed(topic, callback) ==
    /\ topic \in DOMAIN subscribers
    /\ \E i \in 1..Len(subscribers[topic]) : subscribers[topic][i] = callback

(* handleDeliveryEvent's mapping of the event type to the new status; ""   *)
(* is the branch that ignores the event.                                   *)
newStatusFor(eventType) ==
    IF eventType = ORDER_SHIPPED THEN SHIPPED
    ELSE IF eventType = ORDER_DELIVERED THEN DELIVERED
    ELSE ""

isDeliveryStatusEvent(event) ==
    event.eventType = ORDER_SHIPPED \/ event.eventType = ORDER_DELIVERED

(* The updateOrderStatus call that handleDeliveryEvent starts in slot c.   *)
StartedUpdate(c, event) ==
    [call EXCEPT ![c] =
        [IdleCall EXCEPT
           !.op = "update", !.order = event.orderId,
           !.newStatus = newStatusFor(event.eventType),
           !.eventId = event.eventId,
           !.priorMarker = (findProcessedEvent(event.eventId) # {}),
           !.pc = "checkDup"]]

(* Variant: the orderId of the event is not looked at.                     *)
handleDeliveryEventAnyOrderId(c, event) ==
    IF ~isDeliveryStatusEvent(event) THEN call
    ELSE IF newStatusFor(event.eventType) = "" THEN call
    ELSE StartedUpdate(c, event)

(* handleDeliveryEvent up to its await: the event is ignored (not a status *)
(* event, or `!orderId`; a missing orderId is 0), or the updateOrderStatus *)
(* call starts.  Nothing after the await calls again.                      *)
handleDeliveryEvent(c, event) ==
    IF ~isDeliveryStatusEvent(event) THEN call
    ELSE IF event.orderId = 0 THEN call
    ELSE IF newStatusFor(event.eventType) = "" THEN call
    ELSE StartedUpdate(c, event)

(* await mockQueue.publish(topic, event.payload): resolves, after the      *)
(* callbacks of the topic ran, or rejects.                                 *)
PublishToBus(t) ==
    /\ t.pc = "publish"
    /\ LET id == t.event.id
           h == [hist[id] EXCEPT !.attempts = Min(@ + 1, MaxAttempts),
                                 !.late = @ \/ RowById(id).published]
       IN  \/ /\ messages' = messages (+)
                    SetToBag({QueueMessage(getTopicForEventType(t.event.eventType),
                                           EventPayload(t.event))})
              /\ tasks' = (tasks \ {t}) \cup
                             {[t EXCEPT !.pc = "mark", !.sent = TRUE]}
              /\ hist' = [hist EXCEPT ![id] = [h EXCEPT !.fails = 0]]
              /\ timers' = IF Subscribed(getTopicForEventType(t.event.eventType),
                                          HANDLE_ORDER_CREATED)
                            THEN handleOrderCreated(EventPayload(t.event))
                            ELSE timers
              /\ IF Subscribed(getTopicForEventType(t.event.eventType),
                               HANDLE_DELIVERY_EVENT)
                 THEN \E c \in Calls :
                         /\ CanStart(c)
                         /\ call' = handleDeliveryEvent(c, EventPayload(t.event))
                 ELSE UNCHANGED call
           \/ /\ tasks' = Moved(t, "retry")
              /\ hist' = [hist EXCEPT ![id] = [h EXCEPT !.fails = @ + 1]]
              /\ UNCHANGED <<worker, consumer, httpVars, messages, timers, call>>
    /\ UNCHANGED <<worker, consumer, httpVars, orders, outbox, processed, applied, breakerVars, now,
                   subscribers, received>>

SetPublished(r) == [r EXCEPT !.published = TRUE, !.publishedAt = now]

(* db.transaction: update published, insert the processed_events marker;   *)
(* a marker with the eventId already there is a unique violation, the      *)
(* transaction rolls back and the catch block calls handleRetry.           *)
MarkPublished(t) ==
    /\ t.pc = "mark"
    /\ IF findProcessedEvent(t.event.eventId) # {}
       THEN /\ tasks' = Moved(t, "retry")
            /\ UNCHANGED <<worker, consumer, httpVars, outbox, processed>>
       ELSE /\ outbox' = OutboxAfterUpdate(t.event.id, SetPublished(RowById(t.event.id)))
            /\ processed' = processed \cup
                              {[eventId |-> t.event.eventId, eventType |-> t.event.eventType]}
            /\ tasks' = tasks \ {t}
    /\ UNCHANGED <<worker, consumer, httpVars, orders, call, applied, breakerVars, queueVars, now, messages, hist>>

(* Variant: the dead-lettering update also stores newRetryCount.           *)
HandleRetryCounted(t) ==
    /\ t.pc = "retry"
    /\ LET newRetryCount == t.event.retryCount + 1
           nextRetryAt == now + retryDelayMs(newRetryCount)
           retried == [RowById(t.event.id) EXCEPT !.retryCount = newRetryCount,
                                                  !.nextRetryAt = nextRetryAt]
       IN  IF newRetryCount >= maxRetries
           THEN /\ outbox' = OutboxAfterUpdate(t.event.id,
                                [SetPublished(RowById(t.event.id))
                                    EXCEPT !.retryCount = newRetryCount])
                /\ tasks' = Moved(t, "dlq")
           ELSE /\ outbox' = OutboxAfterUpdate(t.event.id, retried)
                /\ tasks' = tasks \ {t}
    /\ UNCHANGED <<worker, consumer, httpVars, orders, processed, call, applied, breakerVars, queueVars, now, messages, hist>>

(* handleRetry: dead-letter at newRetryCount >= maxRetries, else schedule  *)
(* the retry.                                                              *)
HandleRetry(t) ==
    /\ t.pc = "retry"
    /\ LET newRetryCount == t.event.retryCount + 1
           nextRetryAt == now + retryDelayMs(newRetryCount)
           retried == [RowById(t.event.id) EXCEPT !.retryCount = newRetryCount,
                                                  !.nextRetryAt = nextRetryAt]
       IN  IF newRetryCount >= maxRetries
           THEN \* moveToDeadLetterQueue: mark as published to stop retrying
                /\ outbox' = OutboxAfterUpdate(t.event.id, SetPublished(RowById(t.event.id)))
                /\ tasks' = Moved(t, "dlq")
           ELSE /\ outbox' = OutboxAfterUpdate(t.event.id, retried)
                /\ tasks' = tasks \ {t}
    /\ UNCHANGED <<worker, consumer, httpVars, orders, processed, call, applied, breakerVars, queueVars, now, messages, hist>>

DLQEvent(e) ==
    [eventType |-> DLQ_EVENT, originalEvent |-> e, reason |-> "Max retries exceeded"]

(* moveToDeadLetterQueue: await mockQueue.publish(DEAD_LETTER_QUEUE, ...); *)
(* a rejection leaves publishEvent rejected, which allSettled absorbs.     *)
PublishToDeadLetterQueue(t) ==
    /\ t.pc = "dlq"
    /\ \/ /\ messages' = messages (+)
                SetToBag({QueueMessage(DEAD_LETTER_QUEUE, DLQEvent(t.event))})
          /\ UNCHANGED hist
       \/ /\ hist' = [hist EXCEPT ![t.event.id].dlqFailed = TRUE]
          /\ UNCHANGED messages
    /\ tasks' = tasks \ {t}
    /\ UNCHANGED <<worker, consumer, httpVars, orders, outbox, processed, call, applied, breakerVars, queueVars, now>>

(* Variant: the marking writes are issued on `db`, outside a transaction,  *)
(* so the update of published stays when the insert of the marker throws.  *)
OutboxWriteFailsAfterUpdate(t) ==
    /\ t.pc \in {"mark", "retry"}
    /\ TotalFaults < MaxFaults
    /\ tasks' = IF t.pc = "mark" THEN Moved(t, "retry") ELSE tasks \ {t}
    /\ outbox' = IF t.pc = "mark"
                 THEN OutboxAfterUpdate(t.event.id, SetPublished(RowById(t.event.id)))
                 ELSE outbox
    /\ hist' = [hist EXCEPT ![t.event.id].faults = @ + 1]
    /\ UNCHANGED <<worker, consumer, httpVars, orders, processed, call, applied, breakerVars, queueVars, now, messages>>

(* A store write of the task throws: the marking transaction rolls back    *)
(* and handleRetry runs; a write of handleRetry leaves publishEvent        *)
(* rejected.                                                               *)
OutboxWriteFails(t) ==
    /\ t.pc \in {"mark", "retry"}
    /\ TotalFaults < MaxFaults
    /\ tasks' = IF t.pc = "mark" THEN Moved(t, "retry") ELSE tasks \ {t}
    /\ hist' = [hist EXCEPT ![t.event.id].faults = @ + 1]
    /\ UNCHANGED <<worker, consumer, httpVars, orders, outbox, processed, call, applied, breakerVars, queueVars, now, messages>>

(* Time passes until the next scheduled retry is due.                      *)
Tick ==
    /\ \E r \in outbox :
         /\ ~r.published /\ r.nextRetryAt > now
         /\ now' = r.nextRetryAt
    /\ UNCHANGED <<worker, consumer, httpVars, orders, outbox, processed, call, applied, breakerVars, queueVars, tasks, messages, hist>>

----------------------------------------------------------------------------
(* The delivery pipeline: a DeliveryService timer fires and publishes a    *)
(* status event on delivery-events; MockQueue.publish calls                *)
(* StatusConsumer.handleDeliveryEvent in the same turn, which starts       *)
(* updateOrderStatus and is not awaited by anyone.                         *)

(* generateEventId("delivery"): a fresh id per status event.               *)
DeliveryEventId(orderId, eventType) ==
    "delivery-" \o eventType \o "-" \o ToString(orderId)

StatusEvent(t) ==
    [eventId |-> DeliveryEventId(t.orderId, t.eventType),
     eventType |-> t.eventType, orderId |-> t.orderId]

(* The earliest pending timer fires: publishStatusUpdate.                  *)
PublishStatusUpdate(t) ==
    /\ t \in BagToSet(timers)
    /\ \A u \in BagToSet(timers) : t.due <= u.due
    /\ timers' = timers (-) SetToBag({t})
    /\ now' = IF now < t.due THEN t.due ELSE now
    /\ messages' = messages (+) SetToBag({QueueMessage(DELIVERY_EVENTS, StatusEvent(t))})
    /\ IF Subscribed(DELIVERY_EVENTS, HANDLE_DELIVERY_EVENT)
       THEN \E c \in Calls :
               /\ CanStart(c)
               /\ call' = handleDeliveryEvent(c, StatusEvent(t))
       ELSE UNCHANGED call
    /\ UNCHANGED <<worker, consumer, httpVars, orders, outbox, processed, applied, tasks, hist, breakerVars,
                   subscribers, received>>

(* The event types a publisher may put on a topic.                         *)
QueueEventTypes == {ORDER_CREATED, ORDER_SHIPPED, ORDER_DELIVERED, DLQ_EVENT}

(* mockQueue.publish(delivery-events, event) by any publisher: the message *)
(* is pushed and the consumer's callback runs in the same turn.            *)
PublishDeliveryEvent ==
    /\ BagCardinality(messages) < MaxPublishes
    /\ \E e \in EventIds, eventType \in QueueEventTypes, o \in 0..MaxOrders :
         LET event == [eventId |-> e, eventType |-> eventType, orderId |-> o]
         IN  /\ messages' = messages (+) SetToBag({QueueMessage(DELIVERY_EVENTS, event)})
             /\ IF Subscribed(DELIVERY_EVENTS, HANDLE_DELIVERY_EVENT)
                THEN \E c \in Calls :
                        /\ CanStart(c)
                        /\ call' = handleDeliveryEvent(c, event)
                ELSE UNCHANGED call
    /\ UNCHANGED <<worker, consumer, httpVars, orders, outbox, processed, applied, now, tasks, hist, breakerVars,
                   queueVars>>

----------------------------------------------------------------------------
(* The circuit breaker in front of the inventory API                       *)
(* (utils/circuitBreaker.ts, configured by config/env.ts).  execute is     *)
(* async: its state check and the call of the operation run in one turn,   *)
(* its onSuccess / onFailure in a later one, so calls overlap.             *)

failureThreshold == 5
timeout == 5000
resetTimeout == 30000

CLOSED == "CLOSED"
OPEN == "OPEN"
HALF_OPEN == "HALF_OPEN"

OPEN_ERROR == "Circuit breaker is OPEN"
TIMEOUT_ERROR == "Operation timeout"
API_ERROR == "External inventory API temporarily unavailable"
NoOutcome == "none"
Resolved == "resolved"

Execs == 1..MaxExecs

NewBreaker ==
    [state |-> CLOSED, failureCount |-> 0,
     lastFailureTime |-> NullTime, nextAttempt |-> NullTime]

(* A slot holds one execute call: running, or settled with its outcome.    *)
IdleExec ==
    [pc |-> "idle", startedAt |-> NullTime, invoked |-> FALSE,
     outcome |-> NoOutcome]

BreakerIdle ==
    /\ breaker = NewBreaker
    /\ execs = [e \in Execs |-> IdleExec]

shouldAttemptResetLate(b) ==
    IF b.nextAttempt # NullTime /\ b.nextAttempt # 0
    THEN now > b.nextAttempt
    ELSE FALSE

shouldAttemptReset(b) ==
    IF b.nextAttempt # NullTime /\ b.nextAttempt # 0
    THEN now >= b.nextAttempt
    ELSE FALSE

onSuccess(b) == [b EXCEPT !.failureCount = 0, !.state = CLOSED]

onFailureAboveThreshold(b) ==
    LET counted == [b EXCEPT !.failureCount = b.failureCount + 1,
                             !.lastFailureTime = now]
    IN  IF counted.failureCount > failureThreshold
        THEN [counted EXCEPT !.state = OPEN,
                             !.nextAttempt = now + resetTimeout]
        ELSE counted

onFailure(b) ==
    LET counted == [b EXCEPT !.failureCount = b.failureCount + 1,
                             !.lastFailureTime = now]
    IN  IF counted.failureCount >= failureThreshold
        THEN [counted EXCEPT !.state = OPEN,
                             !.nextAttempt = now + resetTimeout]
        ELSE counted

Settled(e, outcome) ==
    [execs EXCEPT ![e] = [@ EXCEPT !.pc = "idle", !.startedAt = NullTime,
                                   !.outcome = outcome]]

(* execute up to its first await: reject while OPEN, or go HALF_OPEN when  *)
(* the reset is due, and start the operation racing the timer.             *)
Execute(e) ==
    /\ execs[e].pc = "idle"
    /\ IF breaker.state = OPEN /\ ~shouldAttemptReset(breaker)
       THEN /\ execs' = [execs EXCEPT ![e] =
                            [pc |-> "idle", startedAt |-> NullTime,
                             invoked |-> FALSE, outcome |-> OPEN_ERROR]]
            /\ breaker' = breaker
       ELSE /\ execs' = [execs EXCEPT ![e] =
                            [pc |-> "running", startedAt |-> now,
                             invoked |-> TRUE, outcome |-> NoOutcome]]
            /\ breaker' = IF breaker.state = OPEN
                          THEN [breaker EXCEPT !.state = HALF_OPEN]
                          ELSE breaker
    /\ UNCHANGED <<worker, consumer, httpVars, orders, outbox, processed, call, applied, publisherVars, queueVars>>

(* The operation resolves before the timer fires.                          *)
OperationSucceeds(e) ==
    /\ execs[e].pc = "running"
    /\ now <= execs[e].startedAt + timeout
    /\ breaker' = onSuccess(breaker)
    /\ execs' = Settled(e, Resolved)
    /\ UNCHANGED <<worker, consumer, httpVars, orders, outbox, processed, call, applied, publisherVars, queueVars>>

(* The operation rejects before the timer fires.                           *)
OperationThrows(e) ==
    /\ execs[e].pc = "running"
    /\ now <= execs[e].startedAt + timeout
    /\ breaker' = onFailure(breaker)
    /\ execs' = Settled(e, API_ERROR)
    /\ UNCHANGED <<worker, consumer, httpVars, orders, outbox, processed, call, applied, publisherVars, queueVars>>

(* timeoutPromise rejects first.                                           *)
OperationTimesOut(e) ==
    /\ execs[e].pc = "running"
    /\ now >= execs[e].startedAt + timeout
    /\ breaker' = onFailure(breaker)
    /\ execs' = Settled(e, TIMEOUT_ERROR)
    /\ UNCHANGED <<worker, consumer, httpVars, orders, outbox, processed, call, applied, publisherVars, queueVars>>

(* Time passes: by the operation timeout, or until the reset is due.       *)
BreakerTick ==
    /\ \E t \in {now + timeout, breaker.nextAttempt} :
         /\ t > now /\ t <= MaxTime
         /\ now' = t
    /\ UNCHANGED <<worker, consumer, httpVars, orders, outbox, processed, call, applied, tasks, messages,
                   hist, breakerVars, queueVars>>

----------------------------------------------------------------------------
(* createOrder with the real inventory service: checkBatchAvailability     *)
(* runs callExternalInventoryAPI through inventoryCircuitBreaker once and  *)
(* turns any rejection into Error("Inventory service unavailable").  The   *)
(* execute call of createOrder call c is execs[c].                         *)

INVENTORY_ERROR == "Inventory service unavailable"

(* What the catch block of checkBatchAvailability throws for an error.     *)
checkBatchAvailabilityError(error) == INVENTORY_ERROR

(* inventoryCircuitBreaker.execute(() => callExternalInventoryAPI(...))    *)
CheckBatchAvailability(c) ==
    /\ call[c].pc = "inventory"
    /\ c \in Execs
    /\ execs[c] = IdleExec
    /\ Execute(c)

(* The await of execute settles: results, or the error rethrown.           *)
InventorySettles(c) ==
    /\ call[c].pc = "inventory"
    /\ c \in Execs
    /\ execs[c].pc = "idle"
    /\ execs[c].outcome # NoOutcome
    /\ IF execs[c].outcome = Resolved
       THEN \E results \in Responses(Requests[call[c].req]) : InventoryResponds(c, results)
       ELSE /\ checkBatchAvailabilityError(execs[c].outcome) = INVENTORY_ERROR
            /\ InventoryThrows(c)
    /\ UNCHANGED <<worker, consumer, httpVars, orders, outbox, processed, applied, publisherVars, breakerVars, queueVars>>

RECURSIVE AfterFailures(_)
AfterFailures(k) == IF k = 0 THEN NewBreaker ELSE onFailure(AfterFailures(k - 1))

----------------------------------------------------------------------------
(* MockQueue on its own: subscribe pushes a callback on the topic's list,  *)
(* publish pushes the message and runs topicSubscribers.forEach with a     *)
(* try / catch around each callback, then resolves.                        *)

PUBLISH_RESOLVED == "publish resolved"

RECURSIVE SumLen(_, _)
SumLen(f, S) ==
    IF S = {} THEN 0
    ELSE LET x == CHOOSE y \in S : TRUE IN Len(f[x]) + SumLen(f, S \ {x})

Subscriptions == SumLen(subscribers, Topics)

Published == BagCardinality(messages)

(* subscribe(topic, callback): a new callback, last on the topic's list.   *)
Subscribe(topic) ==
    /\ Subscriptions < MaxSubscriptions
    /\ subscribers' = [subscribers EXCEPT
                         ![topic] = Append(@, "callback-" \o ToString(Subscriptions + 1))]
    /\ UNCHANGED <<worker, consumer, httpVars, orders, outbox, processed, call, applied, publisherVars,
                   breakerVars, timers, received>>

Invocation(callback, event, threw) ==
    [callback |-> callback, event |-> event, threw |-> threw]

(* Variant: no try / catch, the first callback that throws ends forEach    *)
(* and rejects publish.                                                    *)
NotifyUntilThrow(callbacks, event, throwing) ==
    LET firstThrow == IF throwing = {} THEN Len(callbacks)
                      ELSE CHOOSE i \in throwing : \A j \in throwing : i <= j
    IN  [i \in 1..firstThrow |-> Invocation(callbacks[i], event, i \in throwing)]
            \o (IF throwing = {} THEN <<Invocation(PUBLISH_RESOLVED, event, FALSE)>>
                ELSE << >>)

(* topicSubscribers.forEach: each callback is called with the message; the *)
(* callbacks at the positions in `throwing` throw, which is caught and     *)
(* logged.  Then the promise of publish resolves.                          *)
Notify(callbacks, event, throwing) ==
    [i \in 1..Len(callbacks) |-> Invocation(callbacks[i], event, i \in throwing)]
        \o <<Invocation(PUBLISH_RESOLVED, event, FALSE)>>

(* publish(topic, message)                                                 *)
Publish(topic) ==
    /\ Published < MaxPublishes
    /\ LET event == [eventId |-> Published + 1, eventType |-> "test"]
       IN  /\ messages' = messages (+) SetToBag({QueueMessage(topic, event)})
           /\ \E throwing \in SUBSET (1..Len(subscribers[topic])) :
                received' = received \o Notify(subscribers[topic], event, throwing)
    /\ UNCHANGED <<worker, consumer, httpVars, orders, outbox, processed, call, applied, now, tasks, hist,
                   breakerVars, timers, subscribers>>

----------------------------------------------------------------------------

(* The request queue middleware (RequestQueue, mounted on every route).    *)
(* A response is followed from the arrival of its request to its last      *)
(* event; Node emits on a response 'finish' and then 'close' when it was   *)
(* sent, 'close' alone when the connection ended first, 'error' and then   *)
(* 'close' when writing failed.                                            *)

maxConcurrent == 50
maxQueueSize == 1000

HttpRequests == 1..MaxRequests

Paths == {"/health", "/api/orders"}

NewResponse ==
    [state |-> "new", path |-> "", listening |-> FALSE, timer |-> FALSE,
     headersSent |-> FALSE, fired |-> {}]

(* `held` (history) counts admitted requests in progress whose responses   *)
(* stay open.                                                              *)
NewRequestQueue == [queue |-> << >>, processing |-> 0, held |-> 0]

RequestQueueIdle ==
    /\ requestQueue = NewRequestQueue
    /\ responses = [i \in HttpRequests |-> NewResponse]

(* this.processing++; res.on(finish | close | error, cleanup); next()      *)
Admit(q, rs, i) ==
    [q |-> [q EXCEPT !.processing = @ + 1],
     rs |-> [rs EXCEPT ![i].state = "handling", ![i].listening = TRUE]]

RECURSIVE processNext(_, _)
processNext(q, rs) ==
    IF Len(q.queue) = 0 \/ q.processing >= maxConcurrent
    THEN [q |-> q, rs |-> rs]
    ELSE LET i == Head(q.queue)
             shifted == [q EXCEPT !.queue = Tail(@)]
         IN  IF rs[i].headersSent
             THEN processNext(shifted, rs)
             ELSE Admit(shifted, rs, i)

(* const cleanup = () => { this.processing--; this.processNext(); }        *)
cleanup(q, rs) == processNext([q EXCEPT !.processing = @ - 1], rs)

(* RequestQueue.middleware for request i                                   *)
Middleware(i) ==
    /\ responses[i].state = "new"
    /\ \E path \in Paths :
         LET arrived == [responses EXCEPT ![i].path = path]
         IN  IF path = "/health"
             THEN /\ responses' = [arrived EXCEPT ![i].state = "handling"]
                  /\ UNCHANGED requestQueue
             ELSE IF requestQueue.processing < maxConcurrent
             THEN /\ requestQueue' = Admit(requestQueue, arrived, i).q
                  /\ responses' = Admit(requestQueue, arrived, i).rs
             ELSE IF Len(requestQueue.queue) >= maxQueueSize
             THEN \* res.status(503).json(...)
                  /\ responses' = [arrived EXCEPT ![i].state = "rejected",
                                                  ![i].headersSent = TRUE]
                  /\ UNCHANGED requestQueue
             ELSE /\ requestQueue' = [requestQueue EXCEPT !.queue = Append(@, i)]
                  /\ responses' = [arrived EXCEPT ![i].state = "queued",
                                                  ![i].timer = TRUE]
    /\ UNCHANGED <<orders, outbox, processed, call, applied, publisherVars,
                   breakerVars, queueVars, worker, consumer>>

Without(queue, i) == SelectSeq(queue, LAMBDA j : j # i)

InQueue(queue, i) == \E k \in 1..Len(queue) : queue[k] = i

(* The setTimeout callback of a queued request, timeoutMs after it was     *)
(* queued.                                                                 *)
QueueTimeout(i) ==
    /\ responses[i].timer
    /\ IF InQueue(requestQueue.queue, i)
       THEN /\ requestQueue' = [requestQueue EXCEPT !.queue = Without(@, i)]
            /\ responses' =
                 IF ~responses[i].headersSent
                 THEN \* res.status(408).json(...)
                      [responses EXCEPT ![i].timer = FALSE, ![i].state = "timedOut",
                                        ![i].headersSent = TRUE]
                 ELSE [responses EXCEPT ![i].timer = FALSE]
       ELSE /\ responses' = [responses EXCEPT ![i].timer = FALSE]
            /\ UNCHANGED requestQueue
    /\ UNCHANGED <<orders, outbox, processed, call, applied, publisherVars,
                   breakerVars, queueVars, worker, consumer>>

ResponseEvents == {"finish", "close", "error"}

(* The response of a handled request emits ev; the listeners registered    *)
(* by the middleware run.                                                  *)
ResponseEvent(i, ev) ==
    /\ responses[i].state \in {"handling", "ended"}
    /\ IF ev = "close" THEN "close" \notin responses[i].fired
                       ELSE responses[i].fired = {}
    /\ LET ended == [responses EXCEPT
                        ![i].state = "ended",
                        ![i].fired = @ \cup {ev},
                        ![i].headersSent = @ \/ ev = "finish"]
           after == IF responses[i].listening
                    THEN cleanup(requestQueue, ended)
                    ELSE [q |-> requestQueue, rs |-> ended]
       IN  /\ requestQueue' = after.q
           /\ responses' = after.rs
    /\ UNCHANGED <<orders, outbox, processed, call, applied, publisherVars,
                   breakerVars, queueVars, worker, consumer>>

----------------------------------------------------------------------------

CreateStep(c) ==
    \/ StartCreate(c)
    \/ HandleIdempotency(c)
    \/ ValidateInventory(c)
    \/ InsertOrder(c)
    \/ InsertOutboxAndCommit(c)
    \/ StoreFailure(c)

StatusStep(c) ==
    \/ StartUpdate(c)
    \/ CheckDuplicateEvent(c)
    \/ FindAndValidate(c)
    \/ UpdateStatus(c)
    \/ MarkProcessedAndCommit(c)
    \/ StoreFailure(c)

(* Calls run one after another: a call moves when no other is running.     *)
NoOtherRunning(c) == \A d \in Calls \ {c} : call[d].pc \in {"idle", "done"}

----------------------------------------------------------------------------
(* createOrder calls against the store as constructed (empty).             *)

InitCreate ==
    /\ PublisherIdle
    /\ BreakerIdle
    /\ QueueIdle
    /\ orders = {}
    /\ outbox = {}
    /\ processed = {}
    /\ call = [c \in Calls |-> IdleCall]
    /\ RequestQueueIdle
    /\ applied = {}

NextCreate == \E c \in Calls : CreateStep(c)

SpecCreate == InitCreate /\ [][NextCreate]_vars

NextCreateSeq ==
    \E c \in Calls :
        \/ NoOtherRunning(c) /\ StartCreate(c)
        \/ NoOtherRunning(c) /\ HandleIdempotency(c)
        \/ NoOtherRunning(c) /\ ValidateInventory(c)
        \/ NoOtherRunning(c) /\ InsertOrder(c)
        \/ NoOtherRunning(c) /\ InsertOutboxAndCommit(c)
        \/ NoOtherRunning(c) /\ StoreFailure(c)

SpecCreateSeq == InitCreate /\ [][NextCreateSeq]_vars

----------------------------------------------------------------------------
(* updateOrderStatus calls against a store in which createOrder has        *)
(* accepted n orders (each with its outbox row, as createOrderWithOutbox   *)
(* commits them).                                                          *)

AcceptedOrder(i) ==
    [id |-> i, req |-> 1, totalAmount |-> calculateTotal(Requests[1]),
     status |-> PENDING_SHIPMENT, key |-> Undefined, createdAt |-> 0, updatedAt |-> 0]

InitStatus ==
    /\ PublisherIdle
    /\ BreakerIdle
    /\ QueueIdle
    /\ \E n \in 1..MaxOrders :
         /\ orders = {AcceptedOrder(i) : i \in 1..n}
         /\ outbox = {OutboxRow(AcceptedOrder(i)) : i \in 1..n}
    /\ processed = {}
    /\ call = [c \in Calls |-> IdleCall]
    /\ RequestQueueIdle
    /\ applied = {}

NextStatus == \E c \in Calls : StatusStep(c)

SpecStatus == InitStatus /\ [][NextStatus]_vars

NextStatusSeq ==
    \E c \in Calls :
        \/ NoOtherRunning(c) /\ StartUpdate(c)
        \/ NoOtherRunning(c) /\ CheckDuplicateEvent(c)
        \/ NoOtherRunning(c) /\ FindAndValidate(c)
        \/ NoOtherRunning(c) /\ UpdateStatus(c)
        \/ NoOtherRunning(c) /\ MarkProcessedAndCommit(c)
        \/ NoOtherRunning(c) /\ StoreFailure(c)

SpecStatusSeq == InitStatus /\ [][NextStatusSeq]_vars

----------------------------------------------------------------------------
(* Publisher runs against a store in which createOrder has accepted n      *)
(* orders, none published yet.                                             *)

InitOutbox ==
    /\ PublisherIdle
    /\ BreakerIdle
    /\ QueueIdle
    /\ \E n \in 1..MaxRows :
         /\ orders = {AcceptedOrder(i) : i \in 1..n}
         /\ outbox = {OutboxRow(AcceptedOrder(i)) : i \in 1..n}
    /\ processed = {}
    /\ call = [c \in Calls |-> IdleCall]
    /\ RequestQueueIdle
    /\ applied = {}

NextOutbox ==
    \/ \E p \in Polls : ProcessOutboxEvents(p)
    \/ \E t \in tasks : TotalAttempts < MaxAttempts /\ PublishToBus(t)
    \/ \E t \in tasks : MarkPublished(t)
    \/ \E t \in tasks : HandleRetry(t)
    \/ \E t \in tasks : PublishToDeadLetterQueue(t)
    \/ \E t \in tasks : OutboxWriteFails(t)
    \/ Tick

SpecOutbox == InitOutbox /\ [][NextOutbox]_vars

----------------------------------------------------------------------------
(* The publisher run as its own process (outboxPublisher.ts:254-270): its  *)
(* MockQueue has no subscriber, one processOutboxEvents runs at a time,    *)
(* and the rows it finds carry any event type.                             *)

OutboxEventTypes == {ORDER_CREATED, ORDER_SHIPPED, ORDER_DELIVERED, "unknown.event"}

InitBatch ==
    /\ PublisherIdle
    /\ BreakerIdle
    /\ timers = EmptyBag
    /\ subscribers = [t \in Topics |-> << >>]
    /\ received = << >>
    /\ consumer = NewConsumer
    /\ \E n \in 1..MaxBatch : \E eventTypes \in [1..n -> OutboxEventTypes] :
         /\ orders = {AcceptedOrder(i) : i \in 1..n}
         /\ outbox = {[OutboxRow(AcceptedOrder(i)) EXCEPT !.eventType = eventTypes[i]] :
                        i \in 1..n}
    /\ processed = {}
    /\ call = [c \in Calls |-> IdleCall]
    /\ RequestQueueIdle
    /\ applied = {}

NextBatch ==
    \/ ProcessOutboxEvents(1)
    \/ \E t \in tasks : TotalAttempts < MaxAttempts /\ PublishToBus(t)
    \/ \E t \in tasks : MarkPublished(t)
    \/ \E t \in tasks : HandleRetry(t)
    \/ \E t \in tasks : PublishToDeadLetterQueue(t)
    \/ \E t \in tasks : OutboxWriteFails(t)
    \/ Tick

SpecBatch == InitBatch /\ [][NextBatch]_vars

----------------------------------------------------------------------------
(* The publisher from its construction: start and stop calls, the polls    *)
(* its interval timers begin, and the publishing of the leased rows.       *)

Start ==
    /\ worker.started < MaxStarts
    /\ worker' = Started(worker)
    /\ UNCHANGED <<consumer, httpVars, orders, outbox, processed, call, applied, now, tasks, messages, hist,
                   breakerVars, queueVars>>

Stop ==
    /\ worker' = Stopped(worker)
    /\ UNCHANGED <<consumer, httpVars, orders, outbox, processed, call, applied, now, tasks, messages, hist,
                   breakerVars, queueVars>>

(* An interval timer that was not cleared fires: processOutboxEvents.      *)
PollTimerFires ==
    /\ worker.intervals # {}
    /\ \E p \in Polls : ProcessOutboxEvents(p)

InitLifecycle ==
    /\ worker = NewWorker
    /\ now = 0
    /\ tasks = {}
    /\ messages = EmptyBag
    /\ hist = [r \in RowIds |-> NoHistory]
    /\ BreakerIdle
    /\ QueueIdle
    /\ \E n \in 1..MaxRows :
         /\ orders = {AcceptedOrder(i) : i \in 1..n}
         /\ outbox = {OutboxRow(AcceptedOrder(i)) : i \in 1..n}
    /\ processed = {}
    /\ call = [c \in Calls |-> IdleCall]
    /\ RequestQueueIdle
    /\ applied = {}

NextLifecycle ==
    \/ Start
    \/ Stop
    \/ PollTimerFires
    \/ \E t \in tasks : TotalAttempts < MaxAttempts /\ PublishToBus(t)
    \/ \E t \in tasks : MarkPublished(t)
    \/ \E t \in tasks : HandleRetry(t)
    \/ \E t \in tasks : PublishToDeadLetterQueue(t)
    \/ \E t \in tasks : OutboxWriteFails(t)
    \/ Tick

SpecLifecycle == InitLifecycle /\ [][NextLifecycle]_vars

----------------------------------------------------------------------------
(* The same, with lease queries that throw.                                *)

(* Variant: the rejection of processOutboxEvents is not handled and ends   *)
(* the process, and with it the publisher and its interval.                *)
AfterUnhandledQueryError(w) ==
    [w EXCEPT !.isRunning = FALSE, !.intervalId = 0, !.intervals = {},
              !.queryErrors = @ + 1]

(* The worker after the select of processOutboxEvents threw: the catch     *)
(* block logs and processOutboxEvents returns.                             *)
AfterQueryError(w) == [w EXCEPT !.queryErrors = @ + 1]

(* An interval timer fires and the lease query throws.                     *)
LeaseQueryThrows ==
    /\ worker.intervals # {}
    /\ worker.queryErrors < MaxFaults
    /\ worker' = AfterQueryError(worker)
    /\ UNCHANGED <<consumer, httpVars, orders, outbox, processed, call, applied, now, tasks, messages, hist,
                   breakerVars, queueVars>>

NextPollFault ==
    \/ NextLifecycle
    \/ LeaseQueryThrows

SpecPollFault == InitLifecycle /\ [][NextPollFault]_vars

----------------------------------------------------------------------------
(* One poll of the publisher over a backlog of about batchSize rows: some  *)
(* of the first rows are published or have a retry scheduled, created_at   *)
(* ascends or descends with the id, or is shared by pairs of rows.  The    *)
(* publishing of the rows in RowIds is followed after the lease.           *)

BacklogKinds == {"new", "due", "scheduled", "published"}

BacklogRow(i, kind, createdAt) ==
    [OutboxRow(AcceptedOrder(i)) EXCEPT
        !.createdAt = createdAt,
        !.published = (kind = "published"),
        !.publishedAt = IF kind = "published" THEN now ELSE NullTime,
        !.retryCount = CASE kind = "due" -> maxRetries - 1
                         [] kind = "scheduled" -> 1
                         [] OTHER -> 0,
        !.nextRetryAt = CASE kind = "due" -> now
                          [] kind = "scheduled" -> now + retryDelayMs(1)
                          [] OTHER -> NullTime]

InitLease ==
    /\ worker = WorkerRunning
    /\ now = 1000
    /\ tasks = {}
    /\ messages = EmptyBag
    /\ hist = [r \in RowIds |-> NoHistory]
    /\ BreakerIdle
    /\ timers = EmptyBag
    /\ subscribers = [t \in Topics |-> << >>]
    /\ received = << >>
    /\ consumer = NewConsumer
    /\ \E n \in (batchSize - 1)..(batchSize + MaxBacklog) :
       \E kinds \in [1..(MaxBacklog + 1) -> BacklogKinds] :
       \E order \in {"ascending", "descending", "pairs"} :
         LET kind(i) == IF i \in DOMAIN kinds THEN kinds[i] ELSE "new"
             createdAt(i) == CASE order = "ascending" -> i
                               [] order = "descending" -> n + 1 - i
                               [] OTHER -> (i + 1) \div 2
         IN  /\ orders = {AcceptedOrder(i) : i \in 1..n}
             /\ outbox = {BacklogRow(i, kind(i), createdAt(i)) : i \in 1..n}
    /\ processed = {}
    /\ call = [c \in Calls |-> IdleCall]
    /\ RequestQueueIdle
    /\ applied = {}

NextLease ==
    \/ ProcessOutboxEvents(1)
    \/ \E t \in tasks : t.event.id \in RowIds /\ TotalAttempts < MaxAttempts /\ PublishToBus(t)
    \/ \E t \in tasks : MarkPublished(t)
    \/ \E t \in tasks : HandleRetry(t)
    \/ \E t \in tasks : PublishToDeadLetterQueue(t)
    \/ \E t \in tasks : OutboxWriteFails(t)

SpecLease == InitLease /\ [][NextLease]_vars

----------------------------------------------------------------------------
(* execute calls on the breaker as constructed, with an empty store.       *)

InitBreaker ==
    /\ PublisherIdle
    /\ BreakerIdle
    /\ QueueIdle
    /\ orders = {}
    /\ outbox = {}
    /\ processed = {}
    /\ call = [c \in Calls |-> IdleCall]
    /\ RequestQueueIdle
    /\ applied = {}

NextBreaker ==
    \/ \E e \in Execs : Execute(e)
    \/ \E e \in Execs : OperationSucceeds(e)
    \/ \E e \in Execs : OperationThrows(e)
    \/ \E e \in Execs : OperationTimesOut(e)
    \/ BreakerTick

SpecBreaker == InitBreaker /\ [][NextBreaker]_vars

----------------------------------------------------------------------------
(* The delivery pipeline for one accepted order whose order.created event  *)
(* the publisher has published once: the row is marked, DeliveryService    *)
(* has scheduled the two timers.  The event loop runs a due timer and the  *)
(* store answers a statement that does not fail, hence the weak fairness;  *)
(* a failing statement is possible but never required.                     *)

PublishedOrderState(n, o) ==
    LET row == OutboxRow(AcceptedOrder(o))
    IN  /\ orders = {AcceptedOrder(i) : i \in 1..n}
        /\ outbox = {IF i = o THEN SetPublished(row) ELSE OutboxRow(AcceptedOrder(i)) :
                       i \in 1..n}
        /\ processed = {[eventId |-> row.eventId, eventType |-> row.eventType]}
        /\ messages = SetToBag({QueueMessage(ORDER_EVENTS, EventPayload(LeasedEvent(row)))})
        /\ timers = SetToBag({Timer(o, ORDER_SHIPPED, shippingDelay),
                              Timer(o, ORDER_DELIVERED, deliveryDelay)})

InitDelivery ==
    /\ worker = WorkerRunning
    /\ now = 0
    /\ tasks = {}
    /\ hist = [r \in RowIds |-> NoHistory]
    /\ BreakerIdle
    /\ subscribers = AppSubscribers
    /\ received = << >>
    /\ consumer = ConsumerRunning
    /\ \E n \in 1..MaxOrders : \E o \in 1..n : PublishedOrderState(n, o)
    /\ call = [c \in Calls |-> IdleCall]
    /\ RequestQueueIdle
    /\ applied = {}

TimerStep == \E t \in BagToSet(timers) : PublishStatusUpdate(t)

NextDelivery ==
    \/ TimerStep
    \/ \E c \in Calls : CheckDuplicateEvent(c)
    \/ \E c \in Calls : FindAndValidate(c)
    \/ \E c \in Calls : UpdateStatus(c)
    \/ \E c \in Calls : MarkProcessedAndCommit(c)
    \/ \E c \in Calls : StoreFailure(c)

FairDelivery ==
    /\ WF_vars(TimerStep)
    /\ \A c \in Calls :
         /\ WF_vars(CheckDuplicateEvent(c))
         /\ WF_vars(FindAndValidate(c))
         /\ WF_vars(UpdateStatus(c))
         /\ WF_vars(MarkProcessedAndCommit(c))

SpecDelivery == InitDelivery /\ [][NextDelivery]_vars /\ FairDelivery

----------------------------------------------------------------------------
(* The running publisher: setInterval keeps starting processOutboxEvents,  *)
(* every await of a task settles, time passes, and a store write that does *)
(* not fail completes (a failing one is possible, finitely often).         *)

TaskOf(p) == {t \in tasks : t.poll = p}

NextOutboxFair ==
    \/ \E p \in Polls : ProcessOutboxEvents(p)
    \/ \E t \in tasks : PublishToBus(t)
    \/ \E t \in tasks : MarkPublished(t)
    \/ \E t \in tasks : HandleRetry(t)
    \/ \E t \in tasks : PublishToDeadLetterQueue(t)
    \/ \E t \in tasks : OutboxWriteFails(t)
    \/ Tick

FairOutbox ==
    /\ WF_vars(\E p \in Polls : ProcessOutboxEvents(p))
    /\ WF_vars(Tick)
    /\ \A p \in Polls :
         /\ WF_vars(\E t \in TaskOf(p) : PublishToBus(t))
         /\ WF_vars(\E t \in TaskOf(p) : MarkPublished(t))
         /\ WF_vars(\E t \in TaskOf(p) : HandleRetry(t))
         /\ WF_vars(\E t \in TaskOf(p) : PublishToDeadLetterQueue(t))

SpecOutboxFair == InitOutbox /\ [][NextOutboxFair]_vars /\ FairOutbox

----------------------------------------------------------------------------
(* createOrder calls through the inventory service and its breaker, the    *)
(* breaker having counted any number of failures up to the threshold.      *)

InitInventory ==
    /\ PublisherIdle
    /\ QueueIdle
    /\ \E k \in 0..failureThreshold : breaker = AfterFailures(k)
    /\ execs = [e \in Execs |-> IdleExec]
    /\ orders = {}
    /\ outbox = {}
    /\ processed = {}
    /\ call = [c \in Calls |-> IdleCall]
    /\ RequestQueueIdle
    /\ applied = {}

(* Time matters while an operation races its timer or the breaker waits   *)
(* for its reset.                                                          *)
BreakerWaits ==
    \/ \E e \in Execs : execs[e].pc = "running"
    \/ breaker.state = OPEN

NextInventory ==
    \/ \E c \in Calls : StartCreate(c)
    \/ \E c \in Calls : HandleIdempotency(c)
    \/ \E c \in Calls : CheckBatchAvailability(c)
    \/ \E c \in Calls : call[c].pc = "inventory" /\ OperationSucceeds(c)
    \/ \E c \in Calls : call[c].pc = "inventory" /\ OperationThrows(c)
    \/ \E c \in Calls : call[c].pc = "inventory" /\ OperationTimesOut(c)
    \/ \E c \in Calls : InventorySettles(c)
    \/ \E c \in Calls : InsertOrder(c)
    \/ \E c \in Calls : InsertOutboxAndCommit(c)
    \/ \E c \in Calls : StoreFailure(c)
    \/ BreakerWaits /\ BreakerTick

SpecInventory == InitInventory /\ [][NextInventory]_vars

----------------------------------------------------------------------------
(* createOrder and updateOrderStatus calls together, against a store with  *)
(* accepted orders.                                                        *)

NextService ==
    \/ \E c \in Calls : StartCreate(c)
    \/ \E c \in Calls : HandleIdempotency(c)
    \/ \E c \in Calls : ValidateInventory(c)
    \/ \E c \in Calls : InsertOrder(c)
    \/ \E c \in Calls : InsertOutboxAndCommit(c)
    \/ \E c \in Calls : StartUpdate(c)
    \/ \E c \in Calls : CheckDuplicateEvent(c)
    \/ \E c \in Calls : FindAndValidate(c)
    \/ \E c \in Calls : UpdateStatus(c)
    \/ \E c \in Calls : MarkProcessedAndCommit(c)
    \/ \E c \in Calls : StoreFailure(c)

SpecService == InitStatus /\ [][NextService]_vars

----------------------------------------------------------------------------
(* The status consumer on delivery-events, against a store with accepted   *)
(* orders: every updateOrderStatus call is one the consumer started.       *)

NextConsumer ==
    \/ PublishDeliveryEvent
    \/ \E c \in Calls : CheckDuplicateEvent(c)
    \/ \E c \in Calls : FindAndValidate(c)
    \/ \E c \in Calls : UpdateStatus(c)
    \/ \E c \in Calls : MarkProcessedAndCommit(c)
    \/ \E c \in Calls : StoreFailure(c)

SpecConsumer == InitStatus /\ [][NextConsumer]_vars

----------------------------------------------------------------------------
(* The same calls while time passes between their steps.                   *)

TimePasses ==
    /\ now + shippingDelay <= MaxTime
    /\ now' = now + shippingDelay
    /\ UNCHANGED <<worker, consumer, httpVars, orders, outbox, processed, call, applied, tasks, messages, hist,
                   breakerVars, queueVars>>

NextServiceClock ==
    \/ NextService
    \/ TimePasses

SpecServiceClock == InitStatus /\ [][NextServiceClock]_vars

----------------------------------------------------------------------------
(* The queue as constructed: no subscribers, no messages.                  *)

InitQueue ==
    /\ PublisherIdle
    /\ BreakerIdle
    /\ timers = EmptyBag
    /\ subscribers = [t \in Topics |-> << >>]
    /\ received = << >>
    /\ consumer = NewConsumer
    /\ orders = {}
    /\ outbox = {}
    /\ processed = {}
    /\ call = [c \in Calls |-> IdleCall]
    /\ RequestQueueIdle
    /\ applied = {}

NextQueue ==
    \/ \E topic \in Topics : Subscribe(topic)
    \/ \E topic \in Topics : Publish(topic)

SpecQueue == InitQueue /\ [][NextQueue]_vars

----------------------------------------------------------------------------
(* Properties                                                              *)

Rank(s) ==
    CASE s = PENDING_SHIPMENT -> 1
      [] s = SHIPPED -> 2
      [] s = DELIVERED -> 3

Done(c) == call[c].pc = "done"

CreatedRowsOf(id) ==
    {r \in outbox : r.aggregateId = id /\ r.eventType = ORDER_CREATED}

(* C1: in every reachable state each persisted order has exactly one       *)
(* order.created outbox row referencing it, and every order.created outbox *)
(* row references a persisted order (the two inserts commit or roll back   *)
(* together).                                                              *)
C1_OrderAndOutboxTogether ==
    /\ \A o \in orders : Cardinality(CreatedRowsOf(o.id)) = 1
    /\ \A r \in outbox :
         r.eventType = ORDER_CREATED => \E o \in orders : o.id = r.aggregateId

(* An order is persisted and another call's transaction failed after its   *)
(* order insert had run.                                                   *)
C1_Witness ==
    /\ orders # {}
    /\ \E c \in Calls :
         /\ Done(c) /\ call[c].op = "create" /\ call[c].fault
         /\ call[c].txOrder # 0
         /\ findOrderById(call[c].txOrder) = {}

MarkersOf(e) == {m \in processed : m.eventId = e}

(* C3: with calls run one after another, a call whose eventId already has  *)
(* a marker returns DUPLICATE_EVENT, none of its steps changes an order or *)
(* a marker, and an eventId never has two markers; so the same             *)
(* order.shipped event applied twice in a row to a Pending Shipment order  *)
(* leaves it Shipped with one marker (seen when the second call returns).  *)
C3_DuplicateEventSkipped ==
    /\ [](\A c \in Calls :
            (Done(c) /\ call[c].op = "update" /\ call[c].priorMarker /\ ~call[c].fault)
                => /\ call[c].result.code = DUPLICATE_EVENT
                   /\ ~call[c].committed)
    /\ [](\A e \in EventIds : Cardinality(MarkersOf(e)) <= 1)
    /\ [](\A c, d \in Calls :
            (/\ d = c + 1 /\ Done(c) /\ Done(d) /\ ~call[d].fault
             /\ \A e \in Calls : e > d => call[e].pc = "idle"
             /\ call[c].op = "update" /\ call[d].op = "update"
             /\ call[c].order = call[d].order /\ call[c].eventId = call[d].eventId
             /\ call[c].newStatus = SHIPPED /\ call[d].newStatus = SHIPPED
             /\ call[c].result.success /\ call[c].seen = PENDING_SHIPMENT)
                => /\ call[d].result.code = DUPLICATE_EVENT
                   /\ \A o \in findOrderById(call[c].order) : o.status = SHIPPED
                   /\ Cardinality(MarkersOf(call[c].eventId)) = 1)
    /\ [][(\E c \in Calls : call[c].pc \notin {"idle", "done"} /\ call[c].priorMarker)
            => (orders' = orders /\ processed' = processed)]_vars

(* The same order.shipped event was applied twice, the second time as a    *)
(* duplicate.                                                              *)
C3_Witness ==
    \E c, d \in Calls :
        /\ d = c + 1 /\ Done(c) /\ Done(d)
        /\ call[c].order = call[d].order /\ call[c].eventId = call[d].eventId
        /\ call[c].newStatus = SHIPPED /\ call[d].newStatus = SHIPPED
        /\ call[c].result.success
        /\ call[d].priorMarker /\ call[d].result.code = DUPLICATE_EVENT

(* C4: with calls run one after another, a createOrder call made with an   *)
(* idempotencyKey under which an earlier call stored its order returns     *)
(* success with that order's id, calls no inventory check and opens no     *)
(* transaction (store faults aside), and a key has one order row and one   *)
(* order.created outbox row.                                               *)
C4_IdempotentReplay ==
    /\ \A c \in Calls :
         (Done(c) /\ call[c].op = "create" /\ call[c].priorOrder # 0 /\ ~call[c].fault)
            => /\ call[c].result = Success(call[c].priorOrder)
               /\ ~call[c].calledInventory
               /\ ~call[c].openedTx
    /\ \A k \in Keys \ {Undefined} :
         /\ Cardinality(findOrderByIdempotencyKey(k)) <= 1
         /\ \A o \in findOrderByIdempotencyKey(k) : Cardinality(CreatedRowsOf(o.id)) = 1

(* The unavailable entries the claim describes: one per result with        *)
(* available=false, in request order, from the item at the result's index. *)
UnavailableIndexes(results) == {i \in 1..Len(results) : ~results[i].available}

NthIndex(S, j) == CHOOSE i \in S : Cardinality({k \in S : k < i}) = j - 1

DetailsAsSpecified(items, results, details) ==
    LET idx == UnavailableIndexes(results)
    IN  /\ Len(details) = Cardinality(idx)
        /\ \A j \in 1..Len(details) :
             LET i == NthIndex(idx, j)
             IN  /\ details[j].productId = items[i].productId
                 /\ details[j].requested = items[i].quantity
                 /\ details[j].available =
                        (IF results[i].availableQuantity = NoQty
                         THEN 0 ELSE results[i].availableQuantity)

(* C8: when the inventory answer of a createOrder call has an item with    *)
(* available=false, the call returns INSUFFICIENT_INVENTORY whose details  *)
(* list exactly the unavailable items, in request order, each built from   *)
(* the request item at the result's index, and the call opens no           *)
(* transaction and writes no order or outbox row.                          *)
C8_InsufficientInventory ==
    \A c \in Calls :
        (call[c].op = "create" /\ UnavailableIndexes(call[c].inventoryResults) # {})
            => /\ Done(c)
               /\ call[c].result.code = INSUFFICIENT_INVENTORY
               /\ ~call[c].result.success
               /\ DetailsAsSpecified(Requests[call[c].req], call[c].inventoryResults,
                                     call[c].result.details)
               /\ ~call[c].openedTx /\ ~call[c].committed /\ call[c].txOrder = 0

(* A two-item request whose second item only is unavailable was rejected   *)
(* while another call's order was accepted.                                *)
C8_Witness ==
    \E c \in Calls :
        /\ Done(c) /\ call[c].op = "create"
        /\ Len(call[c].inventoryResults) = 2
        /\ UnavailableIndexes(call[c].inventoryResults) = {2}
        /\ call[c].result.code = INSUFFICIENT_INVENTORY
        /\ orders # {}

AppliedTo(id) == {a \in applied : a.order = id}

(* C9: under any interleaving, every status update that committed has      *)
(* exactly one marker with its eventId, and the number of markers written  *)
(* by status updates for an order equals the number of transitions the     *)
(* order has undergone, at most two.                                       *)
C9_OneMarkerPerTransition ==
    /\ \A a \in applied : Cardinality(MarkersOf(a.eventId)) = 1
    /\ \A o \in orders :
         /\ Cardinality(AppliedTo(o.id)) = Rank(o.status) - 1
         /\ Cardinality(AppliedTo(o.id)) <= 2

(* C10: overlapping status updates of one order behave as if run one after *)
(* another: each committed update moves the status it overwrites one step  *)
(* forward, and no two committed updates apply the same transition.        *)
C10_StatusUpdatesSerialized ==
    /\ \A a \in applied : Rank(a.to) = Rank(a.from) + 1
    /\ \A a, b \in applied : (a.order = b.order /\ a.to = b.to) => a = b

TasksOn(id) == {t \in tasks : t.event.id = id}

(* C5: with runs of processOutboxEvents by two or more workers in          *)
(* progress, no outbox row is held by two of them at once: a row leased by *)
(* one run is in no other run's batch until the first has written the      *)
(* row's publish result.                                                   *)
C5_NoRowHeldByTwoWorkers ==
    \A s, t \in tasks : s.event.id = t.event.id => s.poll = t.poll

DlqMessagesOf(id) ==
    {m \in BagToSet(messages) :
        m.topic = DEAD_LETTER_QUEUE /\ m.payload.originalEvent.id = id}

RECURSIVE CopiesOfAll(_, _)
CopiesOfAll(B, S) ==
    IF S = {} THEN 0
    ELSE LET m == CHOOSE x \in S : TRUE
         IN  CopiesIn(m, B) + CopiesOfAll(B, S \ {m})

DlqCount(id) == CopiesOfAll(messages, DlqMessagesOf(id))

(* C6: once the bus publish of a row has failed 5 times in a row and the   *)
(* handling of those failures has finished (no store write threw, the DLQ  *)
(* publish was not rejected), the row has published=true, exactly one DLQ  *)
(* event is on dead-letter-queue for it (dlq.event, "Max retries           *)
(* exceeded", originalEvent the leased row), and the bus was not tried for *)
(* the row after that.                                                     *)
C6_DeadLetteredAfterFiveFailures ==
    \A r \in outbox :
        (/\ hist[r.id].fails >= 5
         /\ TasksOn(r.id) = {}
         /\ hist[r.id].faults = 0 /\ ~hist[r.id].dlqFailed)
            => /\ r.published
               /\ DlqCount(r.id) = 1
               /\ \A m \in DlqMessagesOf(r.id) :
                    /\ m.payload.eventType = "dlq.event"
                    /\ m.payload.reason = "Max retries exceeded"
                    /\ m.payload.originalEvent = LeasedEvent(r)
               /\ hist[r.id].fails = 5
               /\ ~hist[r.id].late

(* The delay the claim gives for the retry numbered n.                     *)
ClaimedDelay(n) == IF 100 * 2 ^ (n - 1) <= 1600 THEN 100 * 2 ^ (n - 1) ELSE 1600

(* handleRetry ran for task t in this step and its store write did not     *)
(* throw.                                                                  *)
HandledFailure(t) == t.pc = "retry" /\ t \notin tasks' /\ hist' = hist

C11_ConcurrentSameKey ==
    /\ \A k \in Keys :
         Truthy(k) =>
            /\ Cardinality(findOrderByIdempotencyKey(k)) <= 1
            /\ Cardinality(UNION {CreatedRowsOf(o.id) :
                                    o \in findOrderByIdempotencyKey(k)}) <= 1
    /\ \A c \in Calls :
         (/\ Done(c) /\ call[c].op = "create" /\ Truthy(call[c].key)
          /\ ~call[c].fault
          /\ (call[c].openedTx \/ ~call[c].calledInventory))
            => \E o \in findOrderByIdempotencyKey(call[c].key) :
                  call[c].result = Success(o.id)

(* C12: once failureCount reaches failureThreshold the breaker is OPEN     *)
(* with nextAttempt = now + resetTimeout; below the threshold it is        *)
(* CLOSED; an execute made while OPEN before nextAttempt is rejected with  *)
(* "Circuit breaker is OPEN", does not invoke the operation and leaves     *)
(* state, failureCount, lastFailureTime and nextAttempt as they were.      *)
C12_OpenAfterThreshold ==
    /\ [](breaker.failureCount < failureThreshold => breaker.state = CLOSED)
    /\ [][(/\ breaker'.failureCount = breaker.failureCount + 1
           /\ breaker'.failureCount >= failureThreshold)
            => /\ breaker'.state = OPEN
               /\ breaker'.nextAttempt = now + resetTimeout]_vars
    /\ [][\A e \in Execs :
            (/\ execs[e].pc = "idle" /\ execs'[e] # execs[e]
             /\ breaker.state = OPEN /\ now < breaker.nextAttempt)
              => /\ breaker' = breaker
                 /\ execs'[e].pc = "idle"
                 /\ execs'[e].outcome = OPEN_ERROR
                 /\ ~execs'[e].invoked]_vars

C12_Witness ==
    /\ breaker.state = OPEN
    /\ breaker.failureCount = failureThreshold
    /\ now < breaker.nextAttempt
    /\ \E e \in Execs : execs[e].outcome = OPEN_ERROR

(* C13: an execute made while OPEN at or after nextAttempt moves the       *)
(* breaker to HALF_OPEN and runs the operation; an operation settling      *)
(* while HALF_OPEN closes the breaker with failureCount 0 when it          *)
(* succeeded, and opens it with nextAttempt = now + resetTimeout when it   *)
(* threw or timed out.                                                     *)
C13_HalfOpenProbe ==
    /\ [][\A e \in Execs :
            (/\ execs[e].pc = "idle" /\ execs'[e] # execs[e]
             /\ breaker.state = OPEN /\ now >= breaker.nextAttempt)
              => /\ breaker'.state = HALF_OPEN
                 /\ execs'[e].pc = "running"
                 /\ execs'[e].invoked]_vars
    /\ [][\A e \in Execs :
            (/\ execs[e].pc = "running" /\ execs'[e].pc = "idle"
             /\ breaker.state = HALF_OPEN)
              => IF execs'[e].outcome = Resolved
                 THEN /\ breaker'.state = CLOSED
                      /\ breaker'.failureCount = 0
                 ELSE /\ execs'[e].outcome \in {API_ERROR, TIMEOUT_ERROR}
                      /\ breaker'.state = OPEN
                      /\ breaker'.nextAttempt = now + resetTimeout]_vars

C13_Witness ==
    /\ breaker.state = HALF_OPEN
    /\ \E e \in Execs :
         /\ execs[e].pc = "running"
         /\ execs[e].startedAt = breaker.nextAttempt

(* C14: when the bus publish of a task succeeded and its marking           *)
(* transaction failed, the task ends with the row still published = false, *)
(* no marker for the payload eventId, and the row still selectable by a    *)
(* later poll (retryCount <= maxRetries).                                  *)
C14_RepublishedAfterMarkFailure ==
    [][\A t \in tasks :
         (t.pc = "retry" /\ t.sent /\ t \notin tasks')
           => /\ \A r \in outbox' :
                   r.id = t.event.id => ~r.published /\ r.retryCount <= maxRetries
              /\ \A m \in processed' : m.eventId # t.event.eventId]_vars

(* C15: however often an order.created outbox row is transmitted on        *)
(* order-events, the downstream handling of its payload eventId            *)
(* (DeliveryService scheduling the shipment of the order) takes place at   *)
(* most once.                                                              *)
ShippingTimersOf(orderId) ==
    {m \in BagToSet(timers) : m.orderId = orderId /\ m.eventType = ORDER_SHIPPED}

C15_HandledAtMostOnce ==
    \A r \in outbox :
        r.eventType = ORDER_CREATED
          => CopiesOfAll(timers, ShippingTimersOf(r.aggregateId)) <= 1

StatusEventsOf(orderId, eventType) ==
    {m \in BagToSet(messages) :
        /\ m.topic = DELIVERY_EVENTS
        /\ m.payload.orderId = orderId /\ m.payload.eventType = eventType}

ShippedThenDelivered(orderId) ==
    /\ StatusEventsOf(orderId, ORDER_SHIPPED) # {}
    /\ StatusEventsOf(orderId, ORDER_DELIVERED) # {}

HasStatus(orderId, status) ==
    \E o \in orders : o.id = orderId /\ o.status = status

(* C16: once order.shipped and then order.delivered have been delivered on *)
(* delivery-events for an accepted order whose order.created event was     *)
(* published, the order eventually has status Delivered and keeps it.      *)
C16_EventuallyDelivered ==
    \A i \in OrderIds :
        ShippedThenDelivered(i) ~> [](HasStatus(i, DELIVERED))

(* C17: while the publisher runs, every outbox row of an accepted order    *)
(* eventually has published = true and keeps it: by a bus publish with its *)
(* marker, or by being dead-lettered.                                      *)
C17_EveryRowPublished ==
    /\ \A id \in RowIds :
         <>[](\A r \in outbox : r.id = id => r.published)
    /\ [][\A r \in outbox :
            (~r.published /\ \E q \in outbox' : q.id = r.id /\ q.published)
              => \/ \E m \in processed' \ processed : m.eventId = r.eventId
                 \/ \E t \in tasks :
                       /\ t.event.id = r.id /\ t.pc = "retry"
                       /\ t.event.retryCount + 1 >= maxRetries
                       /\ [t EXCEPT !.pc = "dlq"] \in tasks']_vars

C17_Witness ==
    /\ tasks = {}
    /\ \E r \in outbox :
         /\ r.published
         /\ hist[r.id].attempts >= maxRetries
         /\ DlqCount(r.id) > 0

InventoryFailed(c) ==
    /\ c \in Execs
    /\ call[c].op = "create"
    /\ execs[c].outcome \in {API_ERROR, TIMEOUT_ERROR, OPEN_ERROR}

(* C18: when the inventory call of createOrder fails (the API throws, the  *)
(* operation times out, or the breaker is OPEN), checkBatchAvailability    *)
(* throws "Inventory service unavailable", the operation is not tried      *)
(* again, and createOrder returns INVENTORY_SERVICE_UNAVAILABLE having     *)
(* written no order row and no outbox row.                                 *)
C18_InventoryFailureSurfaces ==
    /\ [](\A c \in Calls :
            InventoryFailed(c)
              => /\ checkBatchAvailabilityError(execs[c].outcome) = INVENTORY_ERROR
                 /\ call[c].pc \in {"inventory", "done"}
                 /\ ~call[c].openedTx /\ ~call[c].committed
                 /\ Done(c) => call[c].result = Failure(INVENTORY_SERVICE_UNAVAILABLE, << >>))
    /\ [][\A c \in Calls :
            InventoryFailed(c)
              => /\ execs'[c] = execs[c]
                 /\ call'[c] # call[c] => orders' = orders /\ outbox' = outbox]_vars

C18_Witness ==
    \E c, d \in Calls :
        /\ InventoryFailed(c) /\ Done(c) /\ execs[c].outcome = OPEN_ERROR
        /\ InventoryFailed(d) /\ Done(d) /\ execs[d].outcome = TIMEOUT_ERROR
        /\ orders = {} /\ outbox = {}

(* C19: a createOrder or updateOrderStatus call always ends with a result  *)
(* value; a call whose store statement or commit threw ends with           *)
(* success = false and code INVENTORY_SERVICE_UNAVAILABLE, and the failure *)
(* leaves orders, outbox_events and processed_events as committed before:  *)
(* the order and outbox row the transaction had inserted are not there.    *)
C19_FailuresAreResults ==
    /\ [](\A c \in Calls :
            Done(c)
              => /\ call[c].result # NoResult
                 /\ call[c].fault
                      => /\ call[c].result = Failure(INVENTORY_SERVICE_UNAVAILABLE, << >>)
                         /\ ~call[c].committed
                         /\ call[c].txOrder # 0
                              => /\ findOrderById(call[c].txOrder) = {}
                                 /\ CreatedRowsOf(call[c].txOrder) = {})
    /\ [][\A c \in Calls :
            (~call[c].fault /\ call'[c].fault)
              => /\ Done(c)'
                 /\ orders' = orders /\ outbox' = outbox /\ processed' = processed]_vars

C19_Witness ==
    \E c, d \in Calls :
        /\ Done(c) /\ call[c].op = "create" /\ call[c].fault /\ call[c].txOrder # 0
        /\ Done(d) /\ call[d].op = "update" /\ call[d].fault /\ call[d].openedTx
        /\ call[d].seen # ""

(* The invocations a step added to the history.                            *)
NewlyReceived == SubSeq(received', Len(received) + 1, Len(received'))

(* C20: a publish on a topic calls the callbacks subscribed to that topic  *)
(* at that moment, each once, in subscription order, and no other          *)
(* callback, whether or not some of them throw, and then resolves; each    *)
(* callback receives the events of successive publishes in publish order.  *)
C20_PublishFansOut ==
    /\ [][\A m \in BagToSet(messages') :
            CopiesIn(m, messages') > CopiesIn(m, messages)
              => /\ Len(NewlyReceived) = Len(subscribers[m.topic]) + 1
                 /\ \A i \in 1..Len(subscribers[m.topic]) :
                      /\ NewlyReceived[i].callback = subscribers[m.topic][i]
                      /\ NewlyReceived[i].event = m.payload
                 /\ NewlyReceived[Len(NewlyReceived)] =
                        Invocation(PUBLISH_RESOLVED, m.payload, FALSE)]_vars
    /\ [](\A i, j \in 1..Len(received) :
            (i < j /\ received[i].callback = received[j].callback)
              => received[i].event.eventId < received[j].event.eventId)

C20_Witness ==
    /\ Published = 2
    /\ \E topic \in Topics :
         /\ Len(subscribers[topic]) = 2
         /\ \E i \in 1..Len(received) :
              /\ received[i].callback = subscribers[topic][1]
              /\ received[i].threw
              /\ received[i + 1].callback = subscribers[topic][2]
              /\ received[i + 1].event = received[i].event
              /\ received[i].event.eventId = 2
         /\ \E t \in Topics \ {topic} : subscribers[t] # << >>

CommitsUpdateOf(id) ==
    \E c \in Calls :
        /\ call[c].op = "update" /\ call[c].pc = "mark" /\ call[c].order = id
        /\ call'[c].committed

(* C22: every step keeps every order, with its totalAmount, customer and   *)
(* items (req), idempotency key and createdAt; an order's status or        *)
(* updatedAt changes only in the commit of an updateOrderStatus call       *)
(* addressed to that order, which leaves all other orders as they were;    *)
(* no outbox row and no marker is deleted.                                 *)
C22_UpdateFrame ==
    [][/\ \A o \in orders :
            \E p \in orders' :
                /\ p.id = o.id
                /\ [p EXCEPT !.status = o.status, !.updatedAt = o.updatedAt] = o
                /\ p # o => CommitsUpdateOf(o.id)
       /\ Cardinality(orders \ orders') <= 1
       /\ \A r \in outbox : \E q \in outbox' : q.id = r.id
       /\ processed \subseteq processed']_vars

(* Two committed updates moved one order to Delivered at a later time;     *)
(* the other order is as inserted.                                         *)
C22_Witness ==
    \E o, p \in orders :
        /\ o.id # p.id
        /\ o.status = DELIVERED /\ o.updatedAt > o.createdAt
        /\ o.totalAmount = calculateTotal(Requests[o.req])
        /\ p = AcceptedOrder(p.id)
        /\ Cardinality({a \in applied : a.order = o.id}) = 2

(* The updateOrderStatus calls made with (orderId, newStatus, eventId).    *)
UpdateCalls(orderId, newStatus, eventId) ==
    {c \in Calls : /\ call[c].op = "update"
                   /\ call[c].order = orderId
                   /\ call[c].newStatus = newStatus
                   /\ call[c].eventId = eventId}

(* The messages on delivery-events that carry a status event with orderId. *)
StatusMessages ==
    {m \in BagToSet(messages) :
        /\ m.topic = DELIVERY_EVENTS
        /\ m.payload.eventType \in {ORDER_SHIPPED, ORDER_DELIVERED}
        /\ m.payload.orderId # 0}

(* C23: updateOrderStatus has been called once per delivery of a status    *)
(* event with an orderId, with (orderId, Shipped, eventId) for             *)
(* order.shipped and (orderId, Delivered, eventId) for order.delivered,    *)
(* and never otherwise: not for other events, and not again after a call   *)
(* returned a failure.                                                     *)
C23_OneUpdatePerStatusEvent ==
    /\ \A m \in StatusMessages :
          Cardinality(UpdateCalls(m.payload.orderId,
                                  IF m.payload.eventType = ORDER_SHIPPED
                                  THEN SHIPPED ELSE DELIVERED,
                                  m.payload.eventId))
            = CopiesIn(m, messages)
    /\ Cardinality({c \in Calls : call[c].op = "update"})
         = CopiesOfAll(messages, StatusMessages)

(* An order.shipped event whose update failed and an ignored event have    *)
(* been delivered: one call, finished.                                     *)
C23_Witness ==
    /\ \E m \in StatusMessages :
          /\ m.payload.eventType = ORDER_SHIPPED
          /\ \E c \in UpdateCalls(m.payload.orderId, SHIPPED, m.payload.eventId) :
                /\ call[c].pc = "done"
                /\ ~call[c].result.success
    /\ \E m \in BagToSet(messages) \ StatusMessages : m.topic = DELIVERY_EVENTS
    /\ Cardinality({c \in Calls : call[c].op = "update"}) = 1

(* The topic C24 names for an event type.                                  *)
ClaimedTopic(eventType) ==
    IF eventType = ORDER_CREATED THEN ORDER_EVENTS
    ELSE IF eventType = ORDER_SHIPPED THEN DELIVERY_EVENTS
    ELSE IF eventType = ORDER_DELIVERED THEN DELIVERY_EVENTS
    ELSE "unknown-events"

(* C24: a publish attempt of a leased row that the bus accepts adds        *)
(* exactly one message, the row's payload on the topic of the row's        *)
(* eventType; a rejected attempt adds none; and every payload of a row on  *)
(* the bus is on the topic of its eventType.                               *)
C24_TopicByEventType ==
    /\ [](\A m \in BagToSet(messages) :
             m.topic # DEAD_LETTER_QUEUE => m.topic = ClaimedTopic(m.payload.eventType))
    /\ [][\A t \in tasks :
            (t.pc = "publish" /\ t \notin tasks') =>
                \/ messages' = messages
                \/ messages' = messages (+)
                      SetToBag({[topic |-> ClaimedTopic(t.event.eventType),
                                 payload |-> [eventId |-> t.event.eventId,
                                              eventType |-> t.event.eventType,
                                              orderId |-> t.event.aggregateId]]})]_vars

(* Payloads were sent on unknown-events and on delivery-events.            *)
C24_Witness ==
    /\ \E m \in BagToSet(messages) :
          m.topic = "unknown-events" /\ m.payload.eventType = "unknown.event"
    /\ \E m \in BagToSet(messages) :
          m.topic = DELIVERY_EVENTS /\ m.payload.eventType \in {ORDER_SHIPPED, ORDER_DELIVERED}

(* C25: at most one interval timer of the publisher is active, and one is  *)
(* active exactly when isRunning; a step that changes the publisher's      *)
(* state flips isRunning (so start while running and stop while stopped    *)
(* change nothing); a poll begins (rows are leased) only while isRunning.  *)
C25_OneTimerWhileRunning ==
    /\ [](/\ Cardinality(worker.intervals) <= 1
          /\ worker.isRunning <=> worker.intervals # {}
          /\ worker.isRunning <=> worker.intervalId # 0)
    /\ [][/\ worker' # worker => worker'.isRunning # worker.isRunning
          /\ (\E t \in tasks' \ tasks : t.pc = "publish") => worker.isRunning]_vars

(* Started, stopped while a leased row was being published, and started    *)
(* again: the second interval is the only one.                             *)
C25_Witness ==
    /\ worker.isRunning /\ worker.started = 2
    /\ worker.intervals = {2}
    /\ tasks # {}

(* The finished updateOrderStatus calls in which no store statement threw. *)
FinishedUpdates ==
    {c \in Calls : call[c].op = "update" /\ call[c].pc = "done" /\ ~call[c].fault}

(* C26: a finished updateOrderStatus call whose eventId had a marker when  *)
(* it began returns DUPLICATE_EVENT, whether or not the order exists or    *)
(* the transition is valid; ORDER_NOT_FOUND is returned only for an order  *)
(* not in the store and INVALID_STATUS_TRANSITION only for an order found  *)
(* with a status from which newStatus is not allowed; a step that returns  *)
(* either of the two changes no order and inserts no marker, and every     *)
(* marker's eventId is that of an update that committed.                   *)
C26_FirstFailureReturned ==
    /\ [](\A c \in FinishedUpdates :
             /\ call[c].priorMarker =>
                   (~call[c].result.success /\ call[c].result.code = DUPLICATE_EVENT)
             /\ (~call[c].result.success /\ call[c].result.code = DUPLICATE_EVENT) =>
                   findProcessedEvent(call[c].eventId) # {}
             /\ (~call[c].result.success /\ call[c].result.code = ORDER_NOT_FOUND) =>
                   findOrderById(call[c].order) = {}
             /\ (~call[c].result.success /\ call[c].result.code = INVALID_STATUS_TRANSITION) =>
                   /\ findOrderById(call[c].order) # {}
                   /\ ~isValidStatusTransition(call[c].seen, call[c].newStatus)
                   /\ ~call[c].committed)
    /\ [](\A m \in processed : \E a \in applied : a.eventId = m.eventId)
    /\ [][\A c \in Calls :
            (/\ call[c].pc # "done" /\ call'[c].pc = "done"
             /\ ~call'[c].result.success
             /\ call'[c].result.code \in {ORDER_NOT_FOUND, INVALID_STATUS_TRANSITION}) =>
                (orders' = orders /\ processed' = processed)]_vars

(* An eventId whose first delivery was rejected as an invalid transition   *)
(* (or for a missing order) was delivered again and applied.               *)
C26_Witness ==
    \E c, d \in FinishedUpdates :
        /\ c # d /\ call[c].eventId = call[d].eventId
        /\ ~call[c].result.success
        /\ call[c].result.code \in {ORDER_NOT_FOUND, INVALID_STATUS_TRANSITION}
        /\ call[d].result.success
        /\ \E m \in processed : m.eventId = call[d].eventId

(* C27: every marker is keyed by the payload eventId of an outbox row that *)
(* is published=true with a publishedAt; and the step that ends the        *)
(* marking of a leased row either leaves the row published=true with       *)
(* publishedAt = now and the marker of its payload eventId inserted, or    *)
(* changes neither table.                                                  *)
C27_MarkerOnlyIfPublished ==
    /\ [](\A m \in processed :
             \E r \in outbox :
                 /\ r.eventId = m.eventId /\ m.eventType = r.eventType
                 /\ r.published /\ r.publishedAt # NullTime)
    /\ [][\A t \in tasks :
            (t.pc = "mark" /\ t \notin tasks') =>
                \/ /\ outbox' = outbox
                   /\ processed' = processed
                \/ /\ (CHOOSE r \in outbox' : r.id = t.event.id).published
                   /\ (CHOOSE r \in outbox' : r.id = t.event.id).publishedAt = now
                   /\ findProcessedEvent(t.event.eventId) = {}
                   /\ processed' = processed \cup
                         {[eventId |-> t.event.eventId, eventType |-> t.event.eventType]}]_vars

(* A first marking transaction threw and changed nothing; the row was      *)
(* published again and marked: it is published=true and has its marker.    *)
C27_Witness ==
    \E r \in outbox :
        /\ r.published
        /\ \E m \in processed : m.eventId = r.eventId
        /\ hist[r.id].faults = 1 /\ hist[r.id].attempts = 2 /\ hist[r.id].fails = 0
        /\ TasksOn(r.id) = {}

(* The rows C28 lets a poll lease, in the state in which it leases.        *)
ClaimedLeasable ==
    {r \in outbox : /\ ~r.published
                    /\ r.retryCount <= 5
                    /\ (r.nextRetryAt = NullTime \/ r.nextRetryAt <= now)}

(* C28: the rows a poll leases are unpublished, have retryCount <= 5 and   *)
(* no retry scheduled after now; they are at most 50, as many as there are *)
(* such rows up to 50, and none of them is newer than such a row left out; *)
(* the bus is sent a row's payload only by a task of such a lease, and in  *)
(* a run of one poll never for a row that was published=true before.       *)
C28_LeaseOnlyDueRows ==
    /\ [](\A id \in RowIds : ~hist[id].late)
    /\ [][LET leased == {r \in outbox : \E t \in tasks' \ tasks :
                                           t.pc = "publish" /\ t.event.id = r.id}
          IN  /\ leased \subseteq ClaimedLeasable
              /\ Cardinality(leased) <= 50
              /\ leased # {} =>
                    /\ Cardinality(leased) = Min(Cardinality(ClaimedLeasable), 50)
                    /\ \A r \in leased, q \in ClaimedLeasable \ leased :
                          r.createdAt <= q.createdAt
                    /\ \A t \in tasks' \ tasks :
                          t.event = LeasedEvent(RowById(t.event.id))
              /\ \A m \in BagToSet(messages') :
                    (m.topic # DEAD_LETTER_QUEUE /\ CopiesIn(m, messages') > CopiesIn(m, messages))
                       => \E t \in tasks : t.pc = "publish" /\ t.event.eventId = m.payload.eventId]_vars

(* A poll leased 50 rows: an older row that was published or had its retry *)
(* scheduled later was skipped, a newer row that is due was left for the   *)
(* next poll, and a leased row's payload was sent.                         *)
C28_Witness ==
    /\ Cardinality({t.event.id : t \in tasks} \cup
                   {r.id : r \in {q \in outbox : q.id \in RowIds /\ hist[q.id].attempts > 0}}) = 50
    /\ \E r \in outbox, q \in ClaimedLeasable :
          /\ r.published \/ r.nextRetryAt > now
          /\ TasksOn(r.id) = {} /\ TasksOn(q.id) = {}
          /\ r.id \in RowIds /\ hist[r.id].attempts = 0
          /\ q.id \notin RowIds
          /\ r.createdAt < q.createdAt
    /\ BagCardinality(messages) > 0

(* C29: the publisher never has two batches in progress: all the           *)
(* publishEvent calls in flight (publishing, or writing their result)      *)
(* belong to one run of processOutboxEvents.                               *)
C29_OneBatchInProgress ==
    \A s, t \in tasks : s.poll = t.poll

(* C30: a step of one publishEvent call of a batch (its bus publish, its   *)
(* marking transaction, its retry or dead-letter write, or the failure of  *)
(* any of these) leaves every other call of the batch in flight and every  *)
(* other row and its history as they were; and a row whose own bus publish *)
(* succeeded and whose own writes did not throw is published = true with   *)
(* its marker, whatever happened to the other rows of the batch.           *)
C30_RowsSettleIndependently ==
    /\ [](\A r \in outbox :
             (/\ TasksOn(r.id) = {}
              /\ hist[r.id].attempts = 1 /\ hist[r.id].fails = 0 /\ hist[r.id].faults = 0)
                => (r.published /\ findProcessedEvent(r.eventId) # {}))
    /\ [][/\ Cardinality(tasks \ tasks') <= 1
          /\ \A t \in tasks \ tasks' :
                /\ tasks \ {t} \subseteq tasks'
                /\ \A r \in outbox : r.id # t.event.id => r \in outbox'
                /\ \A id \in RowIds \ {t.event.id} : hist'[id] = hist[id]]_vars

(* Two rows were leased in one batch: the bus publish of one failed and    *)
(* its retry was scheduled; the other is published = true with its marker. *)
C30_Witness ==
    \E r, q \in outbox :
        /\ r.id # q.id
        /\ tasks = {}
        /\ ~r.published /\ r.retryCount = 1 /\ r.nextRetryAt > now
        /\ hist[r.id].attempts = 1 /\ hist[r.id].fails = 1
        /\ q.published /\ findProcessedEvent(q.eventId) # {}
        /\ hist[q.id].attempts = 1 /\ hist[q.id].fails = 0

(* C31: a poll whose lease query throws starts no publishEvent call, sends *)
(* nothing and changes no row; the publisher's isRunning, intervalId and   *)
(* interval timers are as before; and with the timer still active the next *)
(* tick leases whatever row is due.                                        *)
C31_QueryErrorContained ==
    /\ [](\A p \in Polls :
             (/\ worker.queryErrors > 0 /\ worker.intervals # {}
              /\ Eligible # {} /\ ~PollRunning(p)
              /\ \A q \in Polls : q < p => PollRunning(q))
                => ENABLED PollTimerFires)
    /\ [][worker'.queryErrors # worker.queryErrors =>
             /\ tasks' = tasks /\ messages' = messages
             /\ outbox' = outbox /\ processed' = processed /\ hist' = hist
             /\ worker.isRunning /\ worker'.isRunning
             /\ worker'.intervalId = worker.intervalId
             /\ worker'.intervals = worker.intervals
             /\ worker'.intervals # {}]_vars

(* A lease query threw, the publisher kept running, and a tick leased the  *)
(* row, which was published.                                               *)
C31_Witness ==
    /\ worker.queryErrors = 1 /\ worker.started = 1 /\ worker.isRunning
    /\ \E r \in outbox : r.published /\ hist[r.id].attempts = 1 /\ TasksOn(r.id) = {}

(* C32: a row is published=true while its DLQ event is being published,    *)
(* and once a DLQ publish for a row was rejected the row is published=true *)
(* and no DLQ event for it is on dead-letter-queue.                        *)
C32_NoDlqEventAfterFailedDlqPublish ==
    /\ \A t \in tasks : t.pc = "dlq" => RowById(t.event.id).published
    /\ \A r \in outbox :
          hist[r.id].dlqFailed => (r.published /\ DlqCount(r.id) = 0)

----------------------------------------------------------------------------
(* createOrder against an inventory API whose answers are any values of    *)
(* InventoryCheckResponse: the available flag and availableQuantity are    *)
(* independent fields of the response.                                     *)

ExternalResponses(items) ==
    { rs \in [1..Len(items) ->
                [productId : {"product-1", "product-2"}, available : BOOLEAN,
                 availableQuantity : {NoQty, 0, 1, 2}]] :
        \A i \in 1..Len(items) : rs[i].productId = items[i].productId }

ValidateInventoryExternal(c) ==
    /\ call[c].pc = "inventory"
    /\ \/ InventoryThrows(c)
       \/ \E results \in ExternalResponses(Requests[call[c].req]) :
             InventoryResponds(c, results)
    /\ UNCHANGED <<worker, consumer, httpVars, orders, outbox, processed, applied, publisherVars, breakerVars, queueVars>>

NextExternal ==
    \E c \in Calls :
        \/ StartCreate(c)
        \/ HandleIdempotency(c)
        \/ ValidateInventoryExternal(c)
        \/ InsertOrder(c)
        \/ InsertOutboxAndCommit(c)
        \/ StoreFailure(c)

SpecExternal == InitCreate /\ [][NextExternal]_vars

(* The items answered available=true with fewer units than requested.      *)
ShortIndexes(items, results) ==
    {i \in 1..Len(results) :
        /\ results[i].available
        /\ results[i].availableQuantity # NoQty
        /\ results[i].availableQuantity < items[i].quantity}

C34_OpenUntilNextAttempt ==
    [][(breaker.state = OPEN /\ now < breaker.nextAttempt)
           => /\ breaker'.state = OPEN
              /\ breaker'.failureCount = breaker.failureCount
              /\ breaker'.nextAttempt = breaker.nextAttempt]_vars

(* C35: when two updateOrderStatus calls carrying the same eventId for the *)
(* same order have both returned, no store statement having failed, and    *)
(* one of them succeeded, the status change was applied once, exactly one  *)
(* marker for the eventId exists, and the other call returned              *)
(* DUPLICATE_EVENT.                                                        *)
C35_SameEventAppliedOnce ==
    \A c, d \in Calls :
        (/\ c # d
         /\ call[c].op = "update" /\ call[d].op = "update"
         /\ Done(c) /\ Done(d)
         /\ ~call[c].fault /\ ~call[d].fault
         /\ call[c].eventId = call[d].eventId
         /\ call[c].order = call[d].order
         /\ call[c].newStatus = call[d].newStatus
         /\ call[c].result.success)
            => /\ Cardinality({a \in applied : a.eventId = call[c].eventId}) = 1
               /\ Cardinality(MarkersOf(call[c].eventId)) = 1
               /\ ~call[d].result.success
               /\ call[d].result.code = DUPLICATE_EVENT

----------------------------------------------------------------------------
(* The publisher inside the application (app.ts:43-48) finding an outbox   *)
(* row of type order.shipped or order.delivered for an order in the status *)
(* before: the row goes to delivery-events, where StatusConsumer is        *)
(* subscribed, so the row's payload eventId reaches updateOrderStatus.     *)
(* One processOutboxEvents runs at a time and no store statement is made   *)
(* to fail.                                                                *)

StatusRow(order) ==
    [OutboxRow(order) EXCEPT
        !.eventType = IF order.status = PENDING_SHIPMENT
                      THEN ORDER_SHIPPED ELSE ORDER_DELIVERED]

InitRelay ==
    /\ PublisherIdle
    /\ BreakerIdle
    /\ QueueIdle
    /\ \E s \in {PENDING_SHIPMENT, SHIPPED} :
         /\ orders = {[AcceptedOrder(1) EXCEPT !.status = s]}
         /\ outbox = {StatusRow([AcceptedOrder(1) EXCEPT !.status = s])}
    /\ processed = {}
    /\ call = [c \in Calls |-> IdleCall]
    /\ RequestQueueIdle
    /\ applied = {}

NextRelay ==
    \/ ProcessOutboxEvents(1)
    \/ \E t \in tasks : TotalAttempts < MaxAttempts /\ PublishToBus(t)
    \/ \E t \in tasks : MarkPublished(t)
    \/ \E t \in tasks : HandleRetry(t)
    \/ \E t \in tasks : PublishToDeadLetterQueue(t)
    \/ Tick
    \/ \E c \in Calls : CheckDuplicateEvent(c)
    \/ \E c \in Calls : FindAndValidate(c)
    \/ \E c \in Calls : UpdateStatus(c)
    \/ \E c \in Calls : MarkProcessedAndCommit(c)

SpecRelay == InitRelay /\ [][NextRelay]_vars

SucceededPublishes(r) ==
    CopiesIn(QueueMessage(getTopicForEventType(r.eventType), EventPayload(r)),
             messages)

(* C37: a DLQ event is emitted for an outbox row only if none of the row's *)
(* bus publishes succeeded, and the row's retryCount counts failed bus     *)
(* publishes only: a failure of the marking transaction alone does not     *)
(* consume the retry budget.                                               *)
C37_DlqOnlyAfterBusFailures ==
    \A r \in outbox :
        /\ DlqCount(r.id) > 0 => SucceededPublishes(r) = 0
        /\ r.retryCount <= hist[r.id].attempts - SucceededPublishes(r)

(* C38: under overlapping poll ticks or several workers, the stored        *)
(* retryCount of an outbox row never decreases and never exceeds           *)
(* maxRetries, and, no store write having thrown, at most maxRetries bus   *)
(* publishes are attempted for one row.                                    *)
C38_RetryBudgetHolds ==
    /\ [](\A r \in outbox :
            /\ r.retryCount <= maxRetries
            /\ hist[r.id].faults = 0 => hist[r.id].attempts <= maxRetries)
    /\ [][\A r \in outbox : \A q \in outbox' :
            q.id = r.id => q.retryCount >= r.retryCount]_vars

----------------------------------------------------------------------------
(* The status consumer from its construction: start and stop calls, and    *)
(* events published on delivery-events, against a store with accepted      *)
(* orders.                                                                 *)

(* StatusConsumer.start                                                    *)
ConsumerStart ==
    /\ Len(subscribers[DELIVERY_EVENTS]) < MaxCalls
    /\ IF consumer.isRunning
       THEN UNCHANGED <<consumer, subscribers>>
       ELSE /\ consumer' = [consumer EXCEPT !.isRunning = TRUE]
            /\ subscribers' = [subscribers EXCEPT
                                 ![DELIVERY_EVENTS] = Append(@, HANDLE_DELIVERY_EVENT)]
    /\ UNCHANGED <<orders, outbox, processed, call, applied, publisherVars,
                   breakerVars, timers, received, worker, httpVars>>

(* StatusConsumer.stop                                                     *)
ConsumerStop ==
    /\ consumer' = IF ~consumer.isRunning THEN consumer
                   ELSE [consumer EXCEPT !.isRunning = FALSE]
    /\ UNCHANGED <<orders, outbox, processed, call, applied, publisherVars,
                   breakerVars, queueVars, worker, httpVars>>

(* The callbacks of the consumer registered on delivery-events.            *)
ConsumerHandlers ==
    {i \in 1..Len(subscribers[DELIVERY_EVENTS]) :
        subscribers[DELIVERY_EVENTS][i] = HANDLE_DELIVERY_EVENT}

IdleSlots == {c \in Calls : call[c].pc = "idle"}

(* mockQueue.publish(delivery-events, event): the message is pushed and    *)
(* every registered callback runs handleDeliveryEvent, each in a call slot *)
(* of its own.                                                             *)
PublishToHandlers ==
    /\ BagCardinality(messages) < MaxPublishes
    /\ Cardinality(IdleSlots) >= Cardinality(ConsumerHandlers)
    /\ \E e \in EventIds, eventType \in QueueEventTypes, o \in 0..MaxOrders :
         LET event == [eventId |-> e, eventType |-> eventType, orderId |-> o]
             slots == {c \in IdleSlots :
                         Cardinality({d \in IdleSlots : d < c})
                             < Cardinality(ConsumerHandlers)}
         IN  /\ messages' = messages (+) SetToBag({QueueMessage(DELIVERY_EVENTS, event)})
             /\ call' = [c \in Calls |->
                           IF c \in slots THEN handleDeliveryEvent(c, event)[c]
                           ELSE call[c]]
    /\ UNCHANGED <<orders, outbox, processed, applied, now, tasks, hist, breakerVars,
                   queueVars, worker, consumer, httpVars>>

InitConsumerLifecycle ==
    /\ PublisherIdle
    /\ BreakerIdle
    /\ timers = EmptyBag
    /\ subscribers = [t \in Topics |-> << >>]
    /\ received = << >>
    /\ consumer = NewConsumer
    /\ \E n \in 1..MaxOrders :
         /\ orders = {AcceptedOrder(i) : i \in 1..n}
         /\ outbox = {OutboxRow(AcceptedOrder(i)) : i \in 1..n}
    /\ processed = {}
    /\ call = [c \in Calls |-> IdleCall]
    /\ RequestQueueIdle
    /\ applied = {}

NextConsumerLifecycle ==
    \/ ConsumerStart
    \/ ConsumerStop
    \/ PublishToHandlers
    \/ \E c \in Calls : CheckDuplicateEvent(c)
    \/ \E c \in Calls : FindAndValidate(c)
    \/ \E c \in Calls : UpdateStatus(c)
    \/ \E c \in Calls : MarkProcessedAndCommit(c)

SpecConsumerLifecycle == InitConsumerLifecycle /\ [][NextConsumerLifecycle]_vars

(* C39: for any sequence of start and stop calls on the status consumer,   *)
(* at most one of its handlers is registered on delivery-events, the       *)
(* updateOrderStatus calls started are no more than the status events      *)
(* delivered, and while the consumer is stopped a publish on               *)
(* delivery-events starts no updateOrderStatus call.                       *)
C39_OneHandlerWhileRunning ==
    /\ [](/\ Cardinality(ConsumerHandlers) <= 1
          /\ Cardinality({c \in Calls : call[c].op = "update"})
                <= CopiesOfAll(messages, StatusMessages))
    /\ [][(~consumer.isRunning /\ ~consumer'.isRunning)
             => \A c \in Calls : call[c].pc = "idle" => call'[c].pc = "idle"]_vars

----------------------------------------------------------------------------
(* Requests arriving at the queue middleware while none, maxConcurrent - 1 *)
(* or maxConcurrent admitted requests are in progress.                     *)

InitGate ==
    /\ PublisherIdle
    /\ BreakerIdle
    /\ QueueIdle
    /\ orders = {}
    /\ outbox = {}
    /\ processed = {}
    /\ call = [c \in Calls |-> IdleCall]
    /\ applied = {}
    /\ \E held \in {0, maxConcurrent - 1, maxConcurrent} :
         requestQueue = [NewRequestQueue EXCEPT !.processing = held, !.held = held]
    /\ responses = [i \in HttpRequests |-> NewResponse]

NextGate ==
    \/ \E i \in HttpRequests : Middleware(i)
    \/ \E i \in HttpRequests : QueueTimeout(i)
    \/ \E i \in HttpRequests, ev \in ResponseEvents : ResponseEvent(i, ev)

SpecGate == InitGate /\ [][NextGate]_vars

(* The admitted requests that are being handled: next() was called and the *)
(* response has emitted no event yet.                                      *)
Handling ==
    {i \in HttpRequests : responses[i].listening /\ responses[i].state = "handling"}

====
